---- MODULE Spec2Model ----
(***************************************************************************)
(* Model of the interruptible voice pipeline of hello_world:               *)
(*   - ConversationManager (core/conversation_manager.py): the capture,    *)
(*     generation and synthesis worker threads, handle_interruption, start *)
(*     and stop;                                                           *)
(*   - InterruptionHandler (utils/interruption_handler.py): the flag, its  *)
(*     timestamp and its callbacks;                                        *)
(*   - RingBuffer (providers/stt/whisperkit.py): write, read and           *)
(*     available_read.                                                     *)
(* Three specifications share the variables: Spec (the pipeline), SpecIH   *)
(* (one InterruptionHandler driven through its public methods) and SpecRB  *)
(* (one RingBuffer driven through write and read).                         *)
(***************************************************************************)
EXTENDS Integers, Sequences, FiniteSets, TLC

\* ---------------------------------------------------------------- bounds
\* transcripts the STT backend delivers in one run
MaxTranscripts == 3
\* non-final chunks the generation backend streams per turn
MaxChunks == 1
\* non-final audio chunks the synthesis backend streams per response
MaxAudio == 1
\* trigger_interruption() calls made in one run of SpecIH
MaxTriggers == 3
\* register_callback() calls made in one run of SpecIH
MaxRegistrations == 2
\* value at which the modelled clock stops advancing
MaxClock == 3
\* capacity of the RingBuffer (RingBuffer.size)
RBSize == 3
\* samples handed to RingBuffer.write in one run of SpecRB
MaxSamples == 6
\* record_error() calls the generation and synthesis workers make in one run
MaxErrors == 1
\* start() and stop() calls made in one run of SpecLC
MaxCalls == 3
\* stream_transcripts() calls that raise in one run of SpecCap
MaxStreamErrors == 4

\* process_audio_frame() calls made in one run of SpecVAD
MaxFrames == 13
\* length of the latency list handed to _calculate_latency_stats in SpecStats
MaxLatencies == 5
\* record_*() calls made in one run of SpecMC
MaxRecords == 3
\* start_session() calls made in one run of SpecMC
MaxSessions == 2
\* transcripts the generation thread takes in one run of SpecLat
MaxTurns == 2
\* transcripts waiting on the transcript queue of the capture thread driven
\* alone
MaxQueued == 1
\* responses the generation thread puts on the response queue in one run of
\* SpecSyn
MaxResponses == 2
\* audio chunks one stream_audio() call yields in SpecSyn
MaxStreamChunks == 2
\* handle_interruption() calls in one run of SpecSyn
MaxInterruptions == 2
\* calls the threads of SpecConc make on the handler in one run
MaxOps == 4
\* registrations the handler of SpecConc holds at a time
MaxCallbacks == 2

\* ------------------------------------------------------------- constants
\* process_audio_frame: the number of recent verdicts the voice ratio is
\* taken over
RatioWindow == 10
\* InterruptionHandler.voice_threshold (0.7), in tenths
voice_threshold_tenths == 7
HandlerIds == {"mgr", "stt"}
\* ConversationManager.max_retries
max_retries == 3
\* the stages, each run by the worker threads start() spawns for it
Stages == {"stt", "ai", "tts"}
CallbackIds == {"cbA", "cbB"}
\* the latencies (ms) recorded in SpecStats, and those recorded in SpecMC
LatencyValues == {100, 110, 120, 130, 140}
RecordedValues == {100, 140}
\* the record_*() methods of MetricsCollector that append a latency
\* Transcript.text of the transcripts delivered to the capture thread, as
\* sequences of characters: "", " ", "  ", "h" and " h "
Texts == {<<>>, <<" ">>, <<" ", " ">>, <<"h">>, <<" ", "h", " ">>}

\* the threads that call the handler of SpecConc
Threads == {"t1", "t2"}
\* the methods of InterruptionHandler whose body runs under self._lock and
\* that a callback or a thread calls
LockedMethods == {"reset", "is_interrupted_atomic", "set_tts_playing"}

LatencyKinds == {"stt_latencies", "ai_latencies", "tts_latencies",
                 "e2e_latencies"}

VARIABLES
    \* ConversationManager
    started,            \* start() has spawned the worker threads
    is_running,         \* ConversationManager.is_running
    shutdown_event,     \* ConversationManager.shutdown_event
    tts_playing,        \* ConversationManager.tts_playing
    transcript_queue,   \* ids of the transcripts waiting for generation
    response_queue,     \* turn ids of the final responses waiting for synthesis
    handler,            \* "mgr": ConversationManager.interruption_handler,
                        \* "stt": WhisperKitProvider.interruption_handler
    stt,                \* capture thread: pc, current transcript, count
    hi,                 \* handle_interruption() activation on the capture thread
    ai,                 \* generation thread and the generation backend's stream
    tts,                \* synthesis thread and the synthesis backend's stream
    errors,             \* number of records in MetricsCollector's error log
    error_count,        \* ConversationManager.error_count
    messages,           \* current_session.messages
    \* start(), stop() and the worker threads' life (SpecLC)
    lc,                 \* the client thread: its position in start() or stop()
    threads,            \* per stage, the worker threads that are alive
    current_session,    \* id of ConversationManager.current_session, 0 = None
    sessions,           \* number of sessions create_session() has made
    metrics,            \* MetricsCollector: its session and whether it was ended
    saved,              \* id of the last session handed to save_session()
    \* one capture thread driven alone (SpecCap)
    cap,                \* the thread's position and retry bookkeeping
    \* InterruptionHandler driven alone (SpecIH)
    ih,                 \* the handler object
    ih_calls,           \* invocations of each callback since the last reset()
    ih_obs,             \* bookkeeping of the calls made since the last reset()
    clock,              \* time.time()
    \* RingBuffer driven alone (SpecRB)
    rb,                 \* data, write_pos, read_pos
    rb_log,             \* samples accepted by write / returned by read
    \* the voice activity detector of InterruptionHandler driven alone (SpecVAD)
    vad,                \* voice_frames, is_voice_active and the last call
    \* MetricsCollector driven alone (SpecMC, SpecStats)
    mc,                 \* current_session: its sample lists and counters
    stats,              \* a latency list and _calculate_latency_stats of it
    \* the latency samples of the generation and synthesis threads (SpecLat)
    lat,                \* the two threads' turns and the samples recorded
    \* the synthesis thread and handle_interruption() driven together (SpecSyn)
    syn,                \* the two activations' positions and backend calls
    \* one InterruptionHandler called by two threads (SpecConc)
    ch                  \* the handler, its lock and the threads' positions

vars == <<started, is_running, shutdown_event, tts_playing, transcript_queue,
          response_queue, handler, stt, hi, ai, tts, errors,
          error_count, messages,
          lc, threads, current_session, sessions, metrics, saved, cap,
          ih, ih_calls, ih_obs, clock, rb, rb_log, vad, mc, stats, lat,
          syn, ch>>

pipeVars == <<started, is_running, shutdown_event, tts_playing,
              transcript_queue, response_queue, handler, stt, hi, ai, tts,
              errors, error_count, messages,
              lc, threads, current_session, sessions, metrics, saved,
              cap>>
\* the state only start(), stop() and _handle_stt_error touch
lcVars == <<error_count, messages, lc, threads, current_session, sessions,
            metrics, saved, cap>>
\* the state of the three stages that start() and stop() leave to them
stageVars == <<started, tts_playing, transcript_queue, response_queue,
               handler, stt, hi, ai, tts>>
ihVars == <<ih, ih_calls, ih_obs, clock>>
rbVars == <<rb, rb_log>>
\* the components the later specifications drive alone
concVars == <<syn, ch>>
unitVars == <<vad, mc, stats, lat, concVars>>

Min(a, b) == IF a < b THEN a ELSE b

\* ------------------------------------------------- InterruptionHandler
\* InterruptionHandler.__init__: flag clear, no callbacks, no timestamp
NewHandler == [is_interrupted |-> FALSE, last_time |-> 0, callbacks |-> <<>>]

\* number of registrations of callback c in the list cbs
Registrations(cbs, c) == Cardinality({i \in 1..Len(cbs) : cbs[i] = c})

\* a loop over the callbacks that lets the first exception end the call
RECURSIVE InvokeCallbacks_Abort(_, _, _)
InvokeCallbacks_Abort(cbs, calls, bad) ==
    IF cbs = <<>> THEN [calls |-> calls, propagated |-> FALSE]
    ELSE IF Head(cbs) \in bad
    THEN [calls |-> [calls EXCEPT ![Head(cbs)] = @ + 1], propagated |-> TRUE]
    ELSE InvokeCallbacks_Abort(Tail(cbs),
                               [calls EXCEPT ![Head(cbs)] = @ + 1], bad)

\* trigger_interruption, lines 177-181: the callbacks cbs are invoked in
\* order, those in bad raise and the except clause logs the exception; the
\* invocation counts after the loop and whether an exception left it
RECURSIVE InvokeCallbacks(_, _, _)
InvokeCallbacks(cbs, calls, bad) ==
    IF cbs = <<>> THEN [calls |-> calls, propagated |-> FALSE]
    ELSE InvokeCallbacks(Tail(cbs), [calls EXCEPT ![Head(cbs)] = @ + 1], bad)

\* a trigger that forgets the "already interrupted" early return
TriggerInterruption_NoGuard(h, calls, now, bad) ==
    LET inv == InvokeCallbacks(h.callbacks, calls, bad) IN
    [handler |-> [h EXCEPT !.is_interrupted = TRUE, !.last_time = now],
     calls   |-> inv.calls, propagated |-> inv.propagated]

\* InterruptionHandler.trigger_interruption with callbacks of which those in
\* bad raise: the handler after the call, the invocation count of every
\* callback after the call and whether the call raised
TriggerInterruption(h, calls, now, bad) ==
    IF h.is_interrupted
    THEN [handler |-> h, calls |-> calls, propagated |-> FALSE]
    ELSE LET inv == InvokeCallbacks(h.callbacks, calls, bad) IN
         [handler |-> [h EXCEPT !.is_interrupted = TRUE, !.last_time = now],
          calls   |-> inv.calls, propagated |-> inv.propagated]

\* a reset that also forgets the time of the last interruption
Reset_ForgetsTime(h) == [h EXCEPT !.is_interrupted = FALSE, !.last_time = 0]

\* InterruptionHandler.reset
Reset(h) == [h EXCEPT !.is_interrupted = FALSE]

\* InterruptionHandler.is_interrupted_atomic
IsInterruptedAtomic(h) == h.is_interrupted

\* InterruptionHandler.register_callback
RegisterCallback(h, c) == [h EXCEPT !.callbacks = Append(@, c)]

\* list.remove: the list without the first occurrence of c
RECURSIVE RemoveFirst(_, _)
RemoveFirst(cbs, c) ==
    IF cbs = <<>> THEN <<>>
    ELSE IF Head(cbs) = c THEN Tail(cbs)
    ELSE <<Head(cbs)>> \o RemoveFirst(Tail(cbs), c)

\* InterruptionHandler.unregister_callback
UnregisterCallback(h, c) ==
    IF \E i \in 1..Len(h.callbacks) : h.callbacks[i] = c
    THEN [h EXCEPT !.callbacks = RemoveFirst(@, c)]
    ELSE h

NoCalls == [c \in CallbackIds |-> 0]


\* ------------------------------------------------- pipeline: initial state
\* the capture thread has examined no transcript yet; otherwise: the
\* transcript's is_speech_start and text, tts_playing when it was examined,
\* and whether handle_interruption() was called for it
NoExamination == [examined |-> FALSE, speech_start |-> FALSE,
                  playing |-> FALSE, called |-> FALSE, text |-> <<>>]

NoTranscript == [id |-> 0, speech_start |-> FALSE, empty |-> FALSE]

\* program counters at which the generation thread is inside its
\* "for response_chunk in stream_response(...)" loop
AIStreaming == {"next", "check", "put"}
\* program counters at which the synthesis thread is between setting
\* tts_playing for a response and the finally block of that response
TTSHandling == {"next", "check", "play", "finally"}

\* handle_interruption() is not running; the other fields describe the last
\* call for as long as no stage thread has taken a step since it began:
\* clean (that is the case), entry_q and entry_playing (the length of the
\* response queue and tts_playing when it began), returned (it has returned)
NoCall == [pc |-> "idle", clean |-> FALSE, entry_q |-> 0,
           entry_playing |-> FALSE, returned |-> FALSE]

\* the client thread is in neither start() nor stop(); calls counts its
\* calls, outcome tells how the last one ended, leaked and backend_raised
\* what happened during the last stop(): a join that timed out, a backend
\* stop() that raised
NoClientCall == [pc |-> "idle", calls |-> 0, outcome |-> "none",
                 leaked |-> FALSE, backend_raised |-> FALSE]

\* ConversationManager.__init__ and WhisperKitProvider.__init__
PipeInit ==
    /\ started = FALSE
    /\ is_running = FALSE
    /\ shutdown_event = FALSE
    /\ tts_playing = FALSE
    /\ transcript_queue = <<>>
    /\ response_queue = <<>>
    /\ handler = [h \in HandlerIds |-> NewHandler]
    /\ stt = [pc |-> "idle", n |-> 0, cur |-> NoTranscript]
    /\ hi = NoCall
    /\ ai = [pc |-> "idle", turn |-> 0, gen |-> "none", is_streaming |-> FALSE,
             nyield |-> 0, chunk |-> "none", hi_in |-> FALSE, hi_done |-> FALSE]
    /\ tts = [pc |-> "idle", resp |-> 0, gen |-> "none", should_stop |-> FALSE,
              nyield |-> 0, chunk |-> "none", exit |-> "none",
              played_nonfinal |-> FALSE, final_seen |-> FALSE,
              interrupted |-> FALSE, cleared |-> FALSE]
    /\ errors = 0
    /\ error_count = 0
    /\ messages = <<>>
    /\ lc = NoClientCall
    /\ threads = [s \in Stages |-> [old |-> 0, ref |-> "none"]]
    /\ current_session = 0
    /\ sessions = 0
    /\ metrics = [session |-> 0, ended |-> FALSE]
    /\ saved = 0
    /\ cap = [pc |-> "idle", retry_count |-> 0, fails |-> 0, got |-> FALSE,
              inits |-> 0, enabled |-> FALSE, last |-> NoExamination]

IHInit ==
    /\ ih = NewHandler
    /\ ih_calls = NoCalls
    /\ ih_obs = [triggers |-> 0, pure |-> TRUE, total |-> 0, regs |-> 0,
                 polled |-> FALSE, raised |-> FALSE, propagated |-> FALSE]
    /\ clock = 1

RBInit ==
    /\ rb = [data |-> [i \in 0..(RBSize - 1) |-> 0], write_pos |-> 0,
             read_pos |-> 0]
    /\ rb_log = [written |-> <<>>, read |-> <<>>, offered |-> 0,
                 all_full |-> TRUE, last_op |-> "none", last_n |-> 0,
                 last_room |-> 0, last_len |-> 0]

\* InterruptionHandler.__init__, lines 42-45: no verdicts, no voice activity;
\* n counts the process_audio_frame() calls, last, ret and was_active
\* describe the last one (the classifier's answer, the value returned and
\* is_voice_active before the call), run counts the frames in a row up to
\* the last one that the classifier called speech with a level above
\* dynamic_threshold, fired tells whether a call has returned True and gap
\* whether is_voice_active was false after a call since the last such call
VADInit ==
    vad = [voice_frames |-> <<>>, is_voice_active |-> FALSE, n |-> 0,
           last |-> "none", ret |-> FALSE, was_active |-> FALSE, run |-> 0,
           fired |-> FALSE, gap |-> FALSE]

\* SessionMetrics as start_session() creates it (lines 60-71)
NewSessionMetrics(id) ==
    [session_id |-> id, ended |-> FALSE, total_interactions |-> 0,
     stt_latencies |-> <<>>, ai_latencies |-> <<>>, tts_latencies |-> <<>>,
     e2e_latencies |-> <<>>, errors |-> <<>>, interruptions |-> 0]

\* MetricsCollector.__init__: current_session is None (session_id 0);
\* starts and records count the start_session() and record_*() calls
MCInit ==
    mc = [current_session |-> NewSessionMetrics(0), starts |-> 0,
          records |-> 0]

\* LatencyMetrics(0, 0, 0, 0, 0, 0, 0), line 129; avg is the quotient
\* num / den
NoLatencyMetrics ==
    [min |-> 0, max |-> 0, avg |-> [num |-> 0, den |-> 1], p50 |-> 0,
     p95 |-> 0, p99 |-> 0, samples |-> 0]

\* no latency list yet, nothing computed; computed tells whether result is
\* _calculate_latency_stats of the list
StatsInit ==
    stats = [latencies |-> <<>>, computed |-> FALSE,
             result |-> NoLatencyMetrics]

\* the generation and synthesis threads after start(), seen for their
\* latency samples: running = is_running and shutdown_event not set,
\* interrupted = the handler's flag, turns = transcripts taken so far; of
\* each thread its position, its turn, the chunks its stream has yielded
\* (n), the chunk in hand, whether the final chunk was handled (final),
\* first_token_recorded / first_audio_recorded (recorded), the latency
\* samples recorded for the turn in hand (samples) and whether its stream
\* flagged its first chunk is_first (flagged)
NoChunk == [is_first |-> FALSE, is_final |-> FALSE, full |-> FALSE]

LatThread ==
    [pc |-> "poll", turn |-> 0, n |-> 0, chunk |-> NoChunk, final |-> FALSE,
     recorded |-> FALSE, samples |-> 0, flagged |-> FALSE]

LatInit ==
    lat = [running |-> TRUE, interrupted |-> FALSE, turns |-> 0,
           response_queue |-> <<>>, ai |-> LatThread, tts |-> LatThread]

\* the synthesis thread has dequeued no response; otherwise, for the
\* response in hand: n = the chunks stream_audio() has yielded, played = one
\* of them was played, seen = the thread found is_interrupted_atomic() true,
\* stopped = it called stop_playback(), cleared = handle_interruption()
\* executed line 407 since line 332, in a call that began after the dequeue
\* ("own") or before it ("stale")
NoResponse == [pc |-> "idle", n |-> 0, played |-> FALSE, seen |-> FALSE,
               stopped |-> FALSE, cleared |-> "none"]

\* handle_interruption() is not running; calls counts its calls, outcome
\* tells how the last one ended, and for the current or last call: epoch =
\* the responses the synthesis thread had dequeued when it began, drained =
\* its drain loop found the queue empty, raised = a backend call raised,
\* tts_started = the synthesis thread executed line 332 during the call
NoInterruption == [pc |-> "idle", calls |-> 0, epoch |-> 0, drained |-> FALSE,
                   raised |-> FALSE, tts_started |-> FALSE,
                   outcome |-> "none"]

\* ConversationManager.__init__, lines 44-75
SynInit ==
    syn = [on |-> FALSE, enabled |-> FALSE, puts |-> 0, deq |-> 0,
           tts |-> NoResponse, hi |-> NoInterruption]

\* a thread that is in no call on the handler; otherwise pc is its
\* position, m the method it runs under the lock, ret the position it goes
\* back to after m ("iter" when a callback called m), i the index of the
\* list iterator of line 177; set = its current or last
\* trigger_interruption() set the flag; and about the
\* trigger_interruption() it is in: began = the callback list when it was
\* called, invoked = the invocations it made of each callback, removed =
\* the callbacks unregistered since it was called, disturbed = a callback
\* was registered since it was called
NoThread == [pc |-> "idle", m |-> "none", ret |-> "idle", i |-> 0,
             set |-> FALSE, began |-> <<>>, invoked |-> NoCalls,
             removed |-> {}, disturbed |-> FALSE]

\* InterruptionHandler.__init__, lines 18-51 (and line 21 of the pyaudio
\* worktree's handler: _tts_playing); ops counts the calls made, calls the
\* invocations of each callback, and obs describes the trigger_interruption()
\* calls: triggers = how many began, setters = how many set the flag,
\* overlap = one began while another had not yet set the flag, pure = no
\* reset(), register_callback() or unregister_callback() has taken effect
\* since the first one began
ConcInit ==
    ch = [h |-> NewHandler, lock |-> "free", tts_playing |-> FALSE,
          th |-> [t \in Threads |-> NoThread],
          ops |-> 0, calls |-> NoCalls,
          obs |-> [triggers |-> 0, setters |-> 0, overlap |-> FALSE,
                   pure |-> TRUE]]

UnitInit ==
    /\ VADInit
    /\ MCInit
    /\ StatsInit
    /\ LatInit
    /\ SynInit
    /\ ConcInit

Init == PipeInit /\ IHInit /\ RBInit /\ UnitInit

\* a step of the generation or synthesis thread: it is no longer true that no
\* stage thread has moved since the last handle_interruption() call began
StageStep(h) == [NoCall EXCEPT !.pc = h.pc]

\* ------------------------------------------------- start / stop
\* ConversationManager.start
Start ==
    /\ ~started
    /\ started' = TRUE
    /\ is_running' = TRUE
    /\ shutdown_event' = FALSE
    /\ stt' = [stt EXCEPT !.pc = "stream"]
    /\ ai' = [ai EXCEPT !.pc = "poll"]
    /\ tts' = [tts EXCEPT !.pc = "poll"]
    /\ UNCHANGED <<tts_playing, transcript_queue, response_queue, handler, hi>>
    /\ UNCHANGED <<errors, lcVars, ihVars, rbVars, unitVars>>

\* ConversationManager.stop: the stop flags and the three provider stop() calls
Stop ==
    /\ started /\ ~shutdown_event
    /\ is_running' = FALSE
    /\ shutdown_event' = TRUE
    /\ ai' = [ai EXCEPT !.is_streaming = FALSE]
    /\ tts' = [tts EXCEPT !.should_stop = TRUE]
    /\ UNCHANGED <<started, tts_playing, transcript_queue, response_queue,
                   handler, stt, hi>>
    /\ UNCHANGED <<errors, lcVars, ihVars, rbVars, unitVars>>

\* ------------------------------------------------- triggers of the flag
\* WhisperKitProvider.audio_callback on a frame the detector reports as a
\* speech start: it triggers the provider's own InterruptionHandler
AudioCallback ==
    /\ started /\ is_running
    /\ ~handler["stt"].is_interrupted
    /\ handler' = [handler EXCEPT
                     !["stt"] = TriggerInterruption(@, NoCalls, clock, {}).handler]
    /\ UNCHANGED <<started, is_running, shutdown_event, tts_playing,
                   transcript_queue, response_queue, stt, hi, ai, tts>>
    /\ UNCHANGED <<errors, lcVars, ihVars, rbVars, unitVars>>

\* a client of the manager triggering the manager's handler directly, as
\* TestIntegration.test_interruption_handling does
ExternalTrigger ==
    /\ started /\ is_running
    /\ ~handler["mgr"].is_interrupted
    /\ handler' = [handler EXCEPT
                     !["mgr"] = TriggerInterruption(@, NoCalls, clock, {}).handler]
    /\ UNCHANGED <<started, is_running, shutdown_event, tts_playing,
                   transcript_queue, response_queue, stt, hi, ai, tts>>
    /\ UNCHANGED <<errors, lcVars, ihVars, rbVars, unitVars>>


\* ------------------------------------------------- capture thread
\* one iteration of the loop of _stt_worker (lines 197-217) on the next
\* transcript of STTProvider.stream_transcripts: the running check, the
\* interruption check and, when handle_interruption() is not called, the put
\* of a non-empty transcript on the transcript queue
STT_Next ==
    /\ stt.pc = "stream" /\ is_running
    /\ stt.n < MaxTranscripts
    /\ \E sp \in BOOLEAN, em \in BOOLEAN :
         LET t == [id |-> stt.n + 1, speech_start |-> sp, empty |-> em] IN
         IF shutdown_event
         THEN /\ stt' = [stt EXCEPT !.pc = "done", !.n = @ + 1]
              /\ UNCHANGED transcript_queue
         ELSE IF sp /\ tts_playing
         THEN /\ stt' = [stt EXCEPT !.pc = "call_hi", !.n = @ + 1, !.cur = t]
              /\ UNCHANGED transcript_queue
         ELSE /\ stt' = [stt EXCEPT !.n = @ + 1]
              /\ transcript_queue' = IF em THEN transcript_queue
                                     ELSE Append(transcript_queue, t.id)
    /\ UNCHANGED <<started, is_running, shutdown_event, tts_playing,
                   response_queue, handler, hi, ai, tts>>
    /\ UNCHANGED <<errors, lcVars, ihVars, rbVars, unitVars>>

\* the provider was stopped: the transcript stream ends and the worker's
\* while condition is false
STT_StreamEnd ==
    /\ stt.pc = "stream" /\ ~is_running
    /\ stt' = [stt EXCEPT !.pc = "done"]
    /\ UNCHANGED <<started, is_running, shutdown_event, tts_playing,
                   transcript_queue, response_queue, handler, hi, ai, tts>>
    /\ UNCHANGED <<errors, lcVars, ihVars, rbVars, unitVars>>

\* _stt_worker, lines 212-217, after handle_interruption() has returned:
\* empty transcripts are skipped, the others are put on the transcript queue
STT_Enqueue ==
    /\ stt.pc = "enqueue"
    /\ transcript_queue' = IF stt.cur.empty THEN transcript_queue
                           ELSE Append(transcript_queue, stt.cur.id)
    /\ stt' = [stt EXCEPT !.pc = "stream", !.cur = NoTranscript]
    /\ UNCHANGED <<started, is_running, shutdown_event, tts_playing,
                   response_queue, handler, hi, ai, tts>>
    /\ UNCHANGED <<errors, lcVars, ihVars, rbVars, unitVars>>

\* ------------------------------------------------- handle_interruption
\* entry of handle_interruption (lines 382-391), called by the capture thread
HI_Enter ==
    /\ stt.pc = "call_hi" /\ hi.pc = "idle"
    /\ hi' = [pc |-> "drain", clean |-> TRUE, entry_q |-> Len(response_queue),
              entry_playing |-> tts_playing, returned |-> FALSE]
    /\ stt' = [stt EXCEPT !.pc = "in_hi"]
    /\ ai' = [ai EXCEPT !.hi_in = (ai.pc \in AIStreaming), !.hi_done = FALSE]
    /\ UNCHANGED <<started, is_running, shutdown_event, tts_playing,
                   transcript_queue, response_queue, handler, tts>>
    /\ UNCHANGED <<errors, lcVars, ihVars, rbVars, unitVars>>

\* a handle_interruption() that leaves the response queue as it is
HI_Drain_Skip ==
    /\ hi.pc = "drain"
    /\ hi' = [hi EXCEPT !.pc = "stoptts"]
    /\ UNCHANGED <<started, is_running, shutdown_event, tts_playing,
                   transcript_queue, response_queue, handler, stt, ai, tts>>
    /\ UNCHANGED <<errors, lcVars, ihVars, rbVars, unitVars>>

\* one iteration of the drain loop, lines 392-397
HI_Drain ==
    /\ hi.pc = "drain"
    /\ IF response_queue = <<>>
       THEN /\ hi' = [hi EXCEPT !.pc = "stoptts"]
            /\ UNCHANGED response_queue
       ELSE /\ response_queue' = Tail(response_queue)
            /\ UNCHANGED hi
    /\ UNCHANGED <<started, is_running, shutdown_event, tts_playing,
                   transcript_queue, handler, stt, ai, tts>>
    /\ UNCHANGED <<errors, lcVars, ihVars, rbVars, unitVars>>

\* lines 402-406: the test of tts_playing and the stop_playback() call
HI_StopTTS ==
    /\ hi.pc = "stoptts"
    /\ hi' = [hi EXCEPT !.pc = IF tts_playing THEN "cleartts" ELSE "stopai"]
    /\ UNCHANGED <<started, is_running, shutdown_event, tts_playing,
                   transcript_queue, response_queue, handler, stt, ai, tts>>
    /\ UNCHANGED <<errors, lcVars, ihVars, rbVars, unitVars>>

\* a handle_interruption() that stops the playback but forgets line 407
HI_ClearTTS_NoClear ==
    /\ hi.pc = "cleartts"
    /\ tts' = IF tts.pc \in TTSHandling THEN [tts EXCEPT !.cleared = TRUE]
              ELSE tts
    /\ hi' = [hi EXCEPT !.pc = "stopai"]
    /\ UNCHANGED <<started, is_running, shutdown_event, tts_playing,
                   transcript_queue, response_queue, handler, stt, ai>>
    /\ UNCHANGED <<errors, lcVars, ihVars, rbVars, unitVars>>

\* line 407: tts_playing = False
HI_ClearTTS ==
    /\ hi.pc = "cleartts"
    /\ tts_playing' = FALSE
    /\ tts' = IF tts.pc \in TTSHandling THEN [tts EXCEPT !.cleared = TRUE]
              ELSE tts
    /\ hi' = [hi EXCEPT !.pc = "stopai"]
    /\ UNCHANGED <<started, is_running, shutdown_event,
                   transcript_queue, response_queue, handler, stt, ai>>
    /\ UNCHANGED <<errors, lcVars, ihVars, rbVars, unitVars>>

\* lines 409-413: ai_provider.stop_streaming()
HI_StopAI ==
    /\ hi.pc = "stopai"
    /\ ai' = [ai EXCEPT !.is_streaming = FALSE]
    /\ hi' = [hi EXCEPT !.pc = "reset"]
    /\ UNCHANGED <<started, is_running, shutdown_event, tts_playing,
                   transcript_queue, response_queue, handler, stt, tts>>
    /\ UNCHANGED <<errors, lcVars, ihVars, rbVars, unitVars>>

\* lines 415-417: interruption_handler.reset(), and the return to _stt_worker
HI_Reset ==
    /\ hi.pc = "reset"
    /\ handler' = [handler EXCEPT !["mgr"] = Reset(@)]
    /\ hi' = [hi EXCEPT !.pc = "idle", !.returned = hi.clean]
    /\ stt' = [stt EXCEPT !.pc = "enqueue"]
    /\ ai' = [ai EXCEPT !.hi_done = (ai.hi_in /\ ai.pc \in AIStreaming)]
    /\ UNCHANGED <<started, is_running, shutdown_event, tts_playing,
                   transcript_queue, response_queue, tts>>
    /\ UNCHANGED <<errors, lcVars, ihVars, rbVars, unitVars>>


\* ------------------------------------------------- generation thread
\* the generation thread leaves its streaming loop and returns to the queue
AIToPoll(a) == [a EXCEPT !.pc = "poll", !.turn = 0, !.gen = "none",
                  !.nyield = 0, !.chunk = "none",
                  !.hi_in = FALSE, !.hi_done = FALSE]

\* _ai_worker, lines 251-257: the loop condition and transcript_queue.get
AI_Poll ==
    /\ ai.pc = "poll"
    /\ IF ~is_running \/ shutdown_event
       THEN /\ ai' = [ai EXCEPT !.pc = "done"]
            /\ UNCHANGED transcript_queue
       ELSE /\ transcript_queue # <<>>
            /\ ai' = [ai EXCEPT !.pc = "next", !.turn = Head(transcript_queue),
                        !.gen = "fresh", !.nyield = 0, !.chunk = "none",
                        !.hi_in = FALSE, !.hi_done = FALSE]
            /\ transcript_queue' = Tail(transcript_queue)
    /\ hi' = StageStep(hi)
    /\ UNCHANGED <<started, is_running, shutdown_event, tts_playing,
                   response_queue, handler, stt, tts>>
    /\ UNCHANGED <<errors, lcVars, ihVars, rbVars, unitVars>>

\* one next() on ClaudeProvider.stream_response, as consumed at line 266
AI_Next ==
    /\ ai.pc = "next"
    /\ \/ \* a content_block_delta line: a non-final chunk is yielded
          /\ ai.gen = "fresh" \/ (ai.gen = "loop" /\ ai.is_streaming)
          /\ ai.nyield < MaxChunks
          /\ ai' = [ai EXCEPT !.pc = "check", !.gen = "loop",
                      !.is_streaming = TRUE, !.nyield = @ + 1,
                      !.chunk = "nonfinal"]
          /\ UNCHANGED errors
       \/ \* message_stop or end of output: the final chunk is yielded
          /\ ai.gen = "fresh" \/ (ai.gen = "loop" /\ ai.is_streaming)
          /\ ai' = [ai EXCEPT !.pc = "check", !.gen = "final",
                      !.is_streaming = FALSE, !.chunk = "final"]
          /\ UNCHANGED errors
       \/ \* is_streaming was cleared by stop_streaming(): the while loop
          \* ends and the final chunk is yielded
          /\ ai.gen = "loop" /\ ~ai.is_streaming
          /\ ai' = [ai EXCEPT !.pc = "check", !.gen = "final",
                      !.chunk = "final"]
          /\ UNCHANGED errors
       \/ \* an error line or a timeout: the generator raises, and the
          \* worker's except clause (lines 305-311) records the error and
          \* returns to the queue
          /\ ai.gen = "fresh" \/ (ai.gen = "loop" /\ ai.is_streaming)
          /\ errors < MaxErrors
          /\ ai' = [AIToPoll(ai) EXCEPT !.is_streaming = FALSE]
          /\ errors' = errors + 1
       \/ \* the generator is exhausted after its final chunk
          /\ ai.gen = "final"
          /\ ai' = AIToPoll(ai)
          /\ UNCHANGED errors
    /\ hi' = StageStep(hi)
    /\ UNCHANGED <<started, is_running, shutdown_event, tts_playing,
                   transcript_queue, response_queue, handler, stt, tts>>
    /\ UNCHANGED <<lcVars, ihVars, rbVars, unitVars>>

\* a worker that forwards every chunk it receives
AI_Check_ForwardAll ==
    /\ ai.pc = "check"
    /\ ai' = IF ~is_running \/ shutdown_event
             THEN AIToPoll(ai)
             ELSE IF IsInterruptedAtomic(handler["mgr"])
             THEN [AIToPoll(ai) EXCEPT !.is_streaming = FALSE]
             ELSE [ai EXCEPT !.pc = "put"]
    /\ hi' = StageStep(hi)
    /\ UNCHANGED <<started, is_running, shutdown_event, tts_playing,
                   transcript_queue, response_queue, handler, stt, tts>>
    /\ UNCHANGED <<errors, lcVars, ihVars, rbVars, unitVars>>

\* a worker that records an interrupted turn as an error
AI_Check_InterruptIsError ==
    /\ ai.pc = "check"
    /\ ai' = IF ~is_running \/ shutdown_event
             THEN AIToPoll(ai)
             ELSE IF IsInterruptedAtomic(handler["mgr"])
             THEN [AIToPoll(ai) EXCEPT !.is_streaming = FALSE]
             ELSE [ai EXCEPT !.pc = IF ai.chunk = "final" /\ ai.nyield > 0
                                    THEN "put" ELSE "next"]
    /\ errors' = IF is_running /\ ~shutdown_event
                    /\ IsInterruptedAtomic(handler["mgr"])
                 THEN errors + 1 ELSE errors
    /\ hi' = StageStep(hi)
    /\ UNCHANGED <<started, is_running, shutdown_event, tts_playing,
                   transcript_queue, response_queue, handler, stt, tts>>
    /\ UNCHANGED <<lcVars, ihVars, rbVars, unitVars>>

\* _ai_worker, lines 267-290: the running check, the interruption check and
\* the test that selects the chunks to forward (final, non-empty full_text)
AI_Check ==
    /\ ai.pc = "check"
    /\ ai' = IF ~is_running \/ shutdown_event
             THEN AIToPoll(ai)
             ELSE IF IsInterruptedAtomic(handler["mgr"])
             THEN [AIToPoll(ai) EXCEPT !.is_streaming = FALSE]
             ELSE [ai EXCEPT !.pc = IF ai.chunk = "final" /\ ai.nyield > 0
                                    THEN "put" ELSE "next"]
    /\ hi' = StageStep(hi)
    /\ UNCHANGED <<started, is_running, shutdown_event, tts_playing,
                   transcript_queue, response_queue, handler, stt, tts>>
    /\ UNCHANGED <<errors, lcVars, ihVars, rbVars, unitVars>>

\* _ai_worker, line 294: the final chunk is put on the response queue
AI_Put ==
    /\ ai.pc = "put"
    /\ response_queue' = Append(response_queue, ai.turn)
    /\ ai' = [ai EXCEPT !.pc = "next"]
    /\ hi' = StageStep(hi)
    /\ UNCHANGED <<started, is_running, shutdown_event, tts_playing,
                   transcript_queue, handler, stt, tts>>
    /\ UNCHANGED <<errors, lcVars, ihVars, rbVars, unitVars>>

\* ------------------------------------------------- synthesis thread
\* the synthesis thread leaves its try block for the finally block
TTSToFinally(t, how) == [t EXCEPT !.pc = "finally", !.exit = how,
                           !.gen = "none", !.chunk = "none"]

\* the synthesis thread returns to the queue; exit keeps how it left the
\* stream of the response it has just handled
TTSToPoll(t) == [t EXCEPT !.pc = "poll", !.resp = 0, !.nyield = 0,
                   !.played_nonfinal = FALSE, !.final_seen = FALSE,
                   !.interrupted = FALSE, !.cleared = FALSE]

\* _tts_worker, lines 319-325: the loop condition and response_queue.get
TTS_Poll ==
    /\ tts.pc = "poll"
    /\ IF ~is_running \/ shutdown_event
       THEN /\ tts' = [tts EXCEPT !.pc = "done"]
            /\ UNCHANGED response_queue
       ELSE /\ response_queue # <<>>
            /\ tts' = [tts EXCEPT !.pc = "start", !.resp = Head(response_queue)]
            /\ response_queue' = Tail(response_queue)
    /\ hi' = StageStep(hi)
    /\ UNCHANGED <<started, is_running, shutdown_event, tts_playing,
                   transcript_queue, handler, stt, ai>>
    /\ UNCHANGED <<errors, lcVars, ihVars, rbVars, unitVars>>

\* _tts_worker, lines 328-334: tts_playing = True
TTS_Start ==
    /\ tts.pc = "start"
    /\ tts_playing' = TRUE
    /\ tts' = [tts EXCEPT !.pc = "next", !.gen = "fresh", !.nyield = 0,
                 !.chunk = "none", !.exit = "none", !.played_nonfinal = FALSE,
                 !.final_seen = FALSE, !.interrupted = FALSE,
                 !.cleared = FALSE]
    /\ hi' = StageStep(hi)
    /\ UNCHANGED <<started, is_running, shutdown_event,
                   transcript_queue, response_queue, handler, stt, ai>>
    /\ UNCHANGED <<errors, lcVars, ihVars, rbVars, unitVars>>

\* one next() on ElevenLabsProvider.stream_audio, as consumed at line 338
TTS_Next ==
    /\ tts.pc = "next"
    /\ \/ \* a non-final audio chunk is yielded
          /\ tts.gen \in {"fresh", "loop"} /\ ~tts.should_stop
          /\ tts.nyield < MaxAudio
          /\ tts' = [tts EXCEPT !.pc = "check", !.gen = "loop",
                       !.nyield = @ + 1, !.chunk = "nonfinal"]
          /\ UNCHANGED errors
       \/ \* the final audio chunk is yielded
          /\ tts.gen \in {"fresh", "loop"} /\ ~tts.should_stop
          /\ tts' = [tts EXCEPT !.pc = "check", !.gen = "final",
                       !.chunk = "final"]
          /\ UNCHANGED errors
       \/ \* the conversion request fails: stream_audio raises, and the
          \* worker's except clause (lines 364-367) records the error
          /\ tts.gen = "fresh"
          /\ errors < MaxErrors
          /\ tts' = TTSToFinally(tts, "error")
          /\ errors' = errors + 1
       \/ \* the stream is exhausted: after its final chunk, or without one
          \* when the provider was stopped
          /\ tts.gen = "final" \/ tts.should_stop
          /\ tts' = TTSToFinally(tts, "exhausted")
          /\ UNCHANGED errors
    /\ hi' = StageStep(hi)
    /\ UNCHANGED <<started, is_running, shutdown_event, tts_playing,
                   transcript_queue, response_queue, handler, stt, ai>>
    /\ UNCHANGED <<lcVars, ihVars, rbVars, unitVars>>

\* _tts_worker, lines 339-349: the running check and the interruption check
TTS_Check ==
    /\ tts.pc = "check"
    /\ tts' = IF ~is_running \/ shutdown_event
              THEN TTSToFinally(tts, "stopped")
              ELSE IF IsInterruptedAtomic(handler["mgr"])
              THEN [TTSToFinally(tts, "interrupted") EXCEPT !.interrupted = TRUE]
              ELSE [tts EXCEPT !.pc = "play"]
    /\ hi' = StageStep(hi)
    /\ UNCHANGED <<started, is_running, shutdown_event, tts_playing,
                   transcript_queue, response_queue, handler, stt, ai>>
    /\ UNCHANGED <<errors, lcVars, ihVars, rbVars, unitVars>>

\* a worker that gives up after an exception from play_chunk
TTS_Play_ErrorStops ==
    /\ tts.pc = "play"
    /\ \/ /\ tts' = [tts EXCEPT !.pc = "next",
                       !.played_nonfinal = (@ \/ tts.chunk = "nonfinal"),
                       !.final_seen = (@ \/ tts.chunk = "final")]
          /\ UNCHANGED <<errors, tts_playing>>
       \/ /\ errors < MaxErrors
          /\ tts' = [TTSToPoll(tts) EXCEPT !.pc = "done", !.exit = "error"]
          /\ tts_playing' = FALSE
          /\ errors' = errors + 1
    /\ hi' = StageStep(hi)
    /\ UNCHANGED <<started, is_running, shutdown_event,
                   transcript_queue, response_queue, handler, stt, ai>>
    /\ UNCHANGED <<lcVars, ihVars, rbVars, unitVars>>

\* _tts_worker, line 352: play_chunk returns, or raises into lines 364-367,
\* where the error is recorded
TTS_Play ==
    /\ tts.pc = "play"
    /\ \/ /\ tts' = [tts EXCEPT !.pc = "next",
                       !.played_nonfinal = (@ \/ tts.chunk = "nonfinal"),
                       !.final_seen = (@ \/ tts.chunk = "final")]
          /\ UNCHANGED errors
       \/ /\ errors < MaxErrors
          /\ tts' = TTSToFinally(tts, "error")
          /\ errors' = errors + 1
    /\ hi' = StageStep(hi)
    /\ UNCHANGED <<started, is_running, shutdown_event, tts_playing,
                   transcript_queue, response_queue, handler, stt, ai>>
    /\ UNCHANGED <<lcVars, ihVars, rbVars, unitVars>>

\* a worker that clears tts_playing only when the stream ended normally
TTS_Finally_NotOnError ==
    /\ tts.pc = "finally"
    /\ tts_playing' = IF tts.exit = "error" THEN tts_playing ELSE FALSE
    /\ tts' = TTSToPoll(tts)
    /\ hi' = StageStep(hi)
    /\ UNCHANGED <<started, is_running, shutdown_event,
                   transcript_queue, response_queue, handler, stt, ai>>
    /\ UNCHANGED <<errors, lcVars, ihVars, rbVars, unitVars>>

\* _tts_worker, lines 369-370: the finally block
TTS_Finally ==
    /\ tts.pc = "finally"
    /\ tts_playing' = FALSE
    /\ tts' = TTSToPoll(tts)
    /\ hi' = StageStep(hi)
    /\ UNCHANGED <<started, is_running, shutdown_event,
                   transcript_queue, response_queue, handler, stt, ai>>
    /\ UNCHANGED <<errors, lcVars, ihVars, rbVars, unitVars>>

\* ------------------------------------------------- the pipeline
PipeNext ==
    \/ Start \/ Stop \/ AudioCallback \/ ExternalTrigger
    \/ STT_Next \/ STT_StreamEnd \/ STT_Enqueue
    \/ HI_Enter \/ HI_Drain \/ HI_StopTTS \/ HI_ClearTTS \/ HI_StopAI
    \/ HI_Reset
    \/ AI_Poll \/ AI_Next \/ AI_Check \/ AI_Put
    \/ TTS_Poll \/ TTS_Start \/ TTS_Next \/ TTS_Check \/ TTS_Play
    \/ TTS_Finally

Next == PipeNext

Spec == Init /\ [][Next]_vars


\* ------------------------------------------------- one InterruptionHandler
\* ih_obs: triggers = trigger_interruption() calls since the last reset() (or
\* since construction), pure = no callback was registered or unregistered
\* since the first of them, total and regs = calls made in the whole run,
\* polled = the last result of is_interrupted_atomic(), raised = a callback
\* raised during the trigger_interruption() call that set the flag,
\* propagated = the last trigger_interruption() call raised

\* a caller registers callback c
IH_Register(c) ==
    /\ ih_obs.regs < MaxRegistrations
    /\ ih' = RegisterCallback(ih, c)
    /\ ih_obs' = [ih_obs EXCEPT !.regs = @ + 1,
                    !.pure = (@ /\ ih_obs.triggers = 0)]
    /\ UNCHANGED <<ih_calls, clock>>
    /\ UNCHANGED <<pipeVars, rbVars, unitVars>>

\* a caller unregisters callback c
IH_Unregister(c) ==
    /\ ih' = UnregisterCallback(ih, c)
    /\ ih' # ih
    /\ ih_obs' = [ih_obs EXCEPT !.pure = (@ /\ ih_obs.triggers = 0)]
    /\ UNCHANGED <<ih_calls, clock>>
    /\ UNCHANGED <<pipeVars, rbVars, unitVars>>

\* a caller calls trigger_interruption()
IH_Trigger ==
    /\ ih_obs.total < MaxTriggers
    /\ \E bad \in SUBSET CallbackIds :
         LET r == TriggerInterruption(ih, ih_calls, clock, bad) IN
           /\ ih' = r.handler
           /\ ih_calls' = r.calls
           /\ ih_obs' = [ih_obs EXCEPT
                           !.triggers = @ + 1, !.total = @ + 1,
                           !.raised = IF ih.is_interrupted THEN @
                                      ELSE \E i \in 1..Len(ih.callbacks) :
                                              ih.callbacks[i] \in bad,
                           !.propagated = r.propagated]
    /\ UNCHANGED clock
    /\ UNCHANGED <<pipeVars, rbVars, unitVars>>

\* a caller calls reset(); a reset() with no trigger since the last one finds
\* the flag clear and changes nothing
IH_Reset ==
    /\ ih_obs.triggers > 0
    /\ ih' = Reset(ih)
    /\ ih_calls' = NoCalls
    /\ ih_obs' = [ih_obs EXCEPT !.triggers = 0, !.pure = TRUE,
                    !.raised = FALSE, !.propagated = FALSE]
    /\ UNCHANGED clock
    /\ UNCHANGED <<pipeVars, rbVars, unitVars>>

\* a caller polls is_interrupted_atomic() and sees a new value
IH_Poll ==
    /\ ih_obs.polled # IsInterruptedAtomic(ih)
    /\ ih_obs' = [ih_obs EXCEPT !.polled = IsInterruptedAtomic(ih)]
    /\ UNCHANGED <<ih, ih_calls, clock>>
    /\ UNCHANGED <<pipeVars, rbVars, unitVars>>

\* time passes
Tick ==
    /\ clock < MaxClock
    /\ clock' = clock + 1
    /\ UNCHANGED <<ih, ih_calls, ih_obs>>
    /\ UNCHANGED <<pipeVars, rbVars, unitVars>>

IHNext ==
    \/ \E c \in CallbackIds : IH_Register(c)
    \/ \E c \in CallbackIds : IH_Unregister(c)
    \/ IH_Trigger \/ IH_Reset \/ IH_Poll \/ Tick

SpecIH == Init /\ [][IHNext]_vars

\* ------------------------------------------------- RingBuffer
\* the samples i+1 .. i+n as an array
Samples(i, n) == [k \in 1..n |-> i + k]

\* RingBuffer.available_read
AvailableRead(buf) ==
    IF buf.write_pos < buf.read_pos
    THEN RBSize - buf.read_pos + buf.write_pos
    ELSE buf.write_pos - buf.read_pos

\* the room RingBuffer.write computes (its variable "available")
WriteRoom(buf) ==
    IF buf.write_pos >= buf.read_pos
    THEN RBSize - buf.write_pos + buf.read_pos
    ELSE buf.read_pos - buf.write_pos

\* RingBuffer.write: the buffer after the call and the count it returns
Write(buf, audio_data) ==
    LET write_len == Min(Len(audio_data), WriteRoom(buf))
        first_part == RBSize - buf.write_pos
    IN  IF write_len = 0 THEN [buf |-> buf, count |-> 0]
        ELSE [buf |->
                [data |->
                   IF buf.write_pos + write_len <= RBSize
                   THEN [i \in 0..(RBSize - 1) |->
                           IF i >= buf.write_pos /\ i < buf.write_pos + write_len
                           THEN audio_data[i - buf.write_pos + 1]
                           ELSE buf.data[i]]
                   ELSE [i \in 0..(RBSize - 1) |->
                           IF i >= buf.write_pos
                           THEN audio_data[i - buf.write_pos + 1]
                           ELSE IF i < write_len - first_part
                           THEN audio_data[first_part + i + 1]
                           ELSE buf.data[i]],
                 write_pos |-> (buf.write_pos + write_len) % RBSize,
                 read_pos |-> buf.read_pos],
              count |-> write_len]

\* RingBuffer.read: the buffer after the call and the array it returns
Read(buf, num_samples) ==
    LET read_len == Min(num_samples, AvailableRead(buf))
        first_part == RBSize - buf.read_pos
    IN  IF read_len = 0 THEN [buf |-> buf, result |-> <<>>]
        ELSE [buf |-> [buf EXCEPT
                         !.read_pos = (buf.read_pos + read_len) % RBSize],
              result |->
                 IF buf.read_pos + read_len <= RBSize
                 THEN [k \in 1..read_len |-> buf.data[buf.read_pos + k - 1]]
                 ELSE [k \in 1..first_part |-> buf.data[buf.read_pos + k - 1]]
                      \o [k \in 1..(read_len - first_part) |-> buf.data[k - 1]]]

\* rb_log: written = the samples the write calls accepted (the first count
\* samples of each call), read = the samples the read calls returned, offered =
\* the samples handed to write so far, all_full = every write so far returned
\* the length of its array; last_op, last_n, last_len = the last call, its
\* argument length and the count or length it returned; last_room = before a
\* write the capacity minus the accepted samples not yet returned, before a
\* read the value of available_read()

\* the writer calls write with the next n samples
RB_Write(n) ==
    /\ rb_log.offered + n <= MaxSamples
    /\ LET r == Write(rb, Samples(rb_log.offered, n)) IN
         /\ rb' = r.buf
         /\ rb_log' = [rb_log EXCEPT
                !.written = @ \o SubSeq(Samples(rb_log.offered, n), 1, r.count),
                !.offered = @ + n,
                !.all_full = (@ /\ r.count = n),
                !.last_op = "write", !.last_n = n, !.last_len = r.count,
                !.last_room = RBSize - (Len(rb_log.written) - Len(rb_log.read))]
    /\ UNCHANGED <<pipeVars, ihVars, unitVars>>

\* the reader calls read(n)
RB_Read(n) ==
    /\ LET r == Read(rb, n) IN
         /\ rb' = r.buf
         /\ rb_log' = [rb_log EXCEPT
                !.read = @ \o r.result,
                !.last_op = "read", !.last_n = n, !.last_len = Len(r.result),
                !.last_room = AvailableRead(rb)]
    /\ UNCHANGED <<pipeVars, ihVars, unitVars>>

RBNext ==
    \/ \E n \in 1..(RBSize + 1) : RB_Write(n)
    \/ \E n \in 1..(RBSize + 1) : RB_Read(n)

SpecRB == Init /\ [][RBNext]_vars

\* ------------------------------------------------- start, stop, worker threads
\* Thread.is_alive summed over the threads spawned for stage s: the thread
\* the manager still refers to (stt_thread, ai_thread, tts_thread) and the
\* threads of earlier start() calls that have not returned
Alive(s) == threads[s].old + (IF threads[s].ref = "alive" THEN 1 ELSE 0)

\* the order of the statements of stop(), lines 161-185
AfterStop == [stop_stt |-> "stop_ai", stop_ai |-> "stop_tts",
              stop_tts |-> "join_stt"]
AfterJoin == [join_stt |-> "join_ai", join_ai |-> "join_tts",
              join_tts |-> "end_metrics"]
JoinStage == [join_stt |-> "stt", join_ai |-> "ai", join_tts |-> "tts"]

\* start(), lines 107-120: the session is created and the flags are set
LC_StartBegin ==
    /\ lc.pc = "idle" /\ lc.calls < MaxCalls
    /\ sessions' = sessions + 1
    /\ current_session' = sessions + 1
    /\ messages' = <<>>
    /\ is_running' = TRUE
    /\ shutdown_event' = FALSE
    /\ lc' = [lc EXCEPT !.pc = "start_init", !.calls = @ + 1]
    /\ UNCHANGED <<errors, error_count, threads, metrics, saved, cap>>
    /\ UNCHANGED <<stageVars, ihVars, rbVars, unitVars>>

\* start(), lines 122-129: the providers are initialized, or one of them
\* raises and start() raises
LC_StartInit ==
    /\ lc.pc = "start_init"
    /\ \/ lc' = [lc EXCEPT !.pc = "start_spawn"]
       \/ lc' = [lc EXCEPT !.pc = "idle", !.outcome = "start_raised"]
    /\ UNCHANGED <<is_running, shutdown_event, errors, error_count, messages,
                   threads, current_session, sessions, metrics, saved, cap>>
    /\ UNCHANGED <<stageVars, ihVars, rbVars, unitVars>>

\* start(), lines 131-150: start_session and the three worker threads
LC_StartSpawn ==
    /\ lc.pc = "start_spawn"
    /\ metrics' = [session |-> current_session, ended |-> FALSE]
    /\ errors' = 0
    /\ threads' = [s \in Stages |->
                     [old |-> Alive(s), ref |-> "alive"]]
    /\ lc' = [lc EXCEPT !.pc = "idle", !.outcome = "start_returned"]
    /\ UNCHANGED <<is_running, shutdown_event, error_count, messages,
                   current_session, sessions, saved, cap>>
    /\ UNCHANGED <<stageVars, ihVars, rbVars, unitVars>>

\* stop(), lines 152-158: the stop flags
LC_StopBegin ==
    /\ lc.pc = "idle" /\ lc.calls < MaxCalls
    /\ is_running' = FALSE
    /\ shutdown_event' = TRUE
    /\ lc' = [lc EXCEPT !.pc = "stop_stt", !.calls = @ + 1,
                !.leaked = FALSE, !.backend_raised = FALSE]
    /\ UNCHANGED <<errors, error_count, messages, threads, current_session,
                   sessions, metrics, saved, cap>>
    /\ UNCHANGED <<stageVars, ihVars, rbVars, unitVars>>

\* stop(), lines 161-169: one provider's stop(), called on the client thread
\* with no timeout: it returns, it raises into the except clause (the
\* providers after it are skipped), or it never returns
LC_StopBackend ==
    /\ lc.pc \in DOMAIN AfterStop
    /\ \/ lc' = [lc EXCEPT !.pc = AfterStop[lc.pc]]
       \/ lc' = [lc EXCEPT !.pc = "join_stt", !.backend_raised = TRUE]
       \/ lc' = [lc EXCEPT !.pc = "hung"]
    /\ UNCHANGED <<is_running, shutdown_event, errors, error_count, messages,
                   threads, current_session, sessions, metrics, saved, cap>>
    /\ UNCHANGED <<stageVars, ihVars, rbVars, unitVars>>

\* a stop() that gives up when a thread is still alive after the join
LC_Join_GiveUpOnLeak ==
    /\ lc.pc \in DOMAIN AfterJoin
    /\ lc' = IF threads[JoinStage[lc.pc]].ref = "alive"
             THEN [lc EXCEPT !.pc = "idle", !.outcome = "stop_returned",
                     !.leaked = TRUE]
             ELSE [lc EXCEPT !.pc = AfterJoin[lc.pc]]
    /\ UNCHANGED <<is_running, shutdown_event, errors, error_count, messages,
                   threads, current_session, sessions, metrics, saved, cap>>
    /\ UNCHANGED <<stageVars, ihVars, rbVars, unitVars>>

\* stop(), lines 172-177: join(timeout=5) on one worker thread returns, the
\* thread having exited or the timeout having elapsed with the thread alive
LC_Join ==
    /\ lc.pc \in DOMAIN AfterJoin
    /\ lc' = [lc EXCEPT !.pc = AfterJoin[lc.pc],
                !.leaked = (@ \/ threads[JoinStage[lc.pc]].ref = "alive")]
    /\ UNCHANGED <<is_running, shutdown_event, errors, error_count, messages,
                   threads, current_session, sessions, metrics, saved, cap>>
    /\ UNCHANGED <<stageVars, ihVars, rbVars, unitVars>>

\* stop(), lines 180-181, and MetricsCollector.end_session
LC_StopEndMetrics ==
    /\ lc.pc = "end_metrics"
    /\ metrics' = [metrics EXCEPT !.ended = (@ \/ metrics.session # 0)]
    /\ lc' = [lc EXCEPT !.pc = "save"]
    /\ UNCHANGED <<is_running, shutdown_event, errors, error_count, messages,
                   threads, current_session, sessions, saved, cap>>
    /\ UNCHANGED <<stageVars, ihVars, rbVars, unitVars>>

\* stop(), lines 184-187: save_session(current_session) returns, or raises
\* when the session file cannot be written
LC_StopSave ==
    /\ lc.pc = "save"
    /\ saved' = IF current_session # 0 THEN current_session ELSE saved
    /\ \/ lc' = [lc EXCEPT !.pc = "idle", !.outcome = "stop_returned"]
       \/ /\ current_session # 0
          /\ lc' = [lc EXCEPT !.pc = "idle", !.outcome = "stop_raised"]
    /\ UNCHANGED <<is_running, shutdown_event, errors, error_count, messages,
                   threads, current_session, sessions, metrics, cap>>
    /\ UNCHANGED <<stageVars, ihVars, rbVars, unitVars>>

\* the steps of the client thread
LC_Client ==
    \/ LC_StartBegin \/ LC_StartInit \/ LC_StartSpawn
    \/ LC_StopBegin \/ LC_StopBackend \/ LC_Join \/ LC_StopEndMetrics
    \/ LC_StopSave

\* lines 194, 251 and 319: a worker thread of stage s finds its while
\* condition false and returns; it is the thread the manager refers to or
\* one of an earlier start()
LC_WorkerExit(s) ==
    /\ ~is_running \/ shutdown_event
    /\ \/ /\ threads[s].ref = "alive"
          /\ threads' = [threads EXCEPT ![s].ref = "done"]
       \/ /\ threads[s].old > 0
          /\ threads' = [threads EXCEPT ![s].old = @ - 1]
    /\ UNCHANGED <<is_running, shutdown_event, errors, error_count, messages,
                   lc, current_session, sessions, metrics, saved, cap>>
    /\ UNCHANGED <<stageVars, ihVars, rbVars, unitVars>>

\* _stt_worker, lines 237-240: the capture thread the manager refers to
\* gives up after max_retries failures
LC_CaptureGivesUp ==
    /\ threads["stt"].ref = "alive"
    /\ is_running /\ ~shutdown_event
    /\ is_running' = FALSE
    /\ threads' = [threads EXCEPT !["stt"].ref = "done"]
    /\ UNCHANGED <<shutdown_event, errors, error_count, messages,
                   lc, current_session, sessions, metrics, saved, cap>>
    /\ UNCHANGED <<stageVars, ihVars, rbVars, unitVars>>

LCNext ==
    \/ LC_Client
    \/ \E s \in Stages : LC_WorkerExit(s)
    \/ LC_CaptureGivesUp

SpecLC == Init /\ [][LCNext]_vars

\* the client thread runs: a call of start() or stop() that can take a step
\* takes it
SpecLCFair == SpecLC /\ WF_vars(LC_Client)

\* ------------------------------------------------- one capture thread
\* cap: pc is the position of _stt_worker, retry_count its local variable;
\* fails counts the stream_transcripts() calls that raised since the last one
\* that ended without raising, got tells whether the current call has
\* delivered a transcript, inits counts the stt_provider.initialize() calls
\* of _handle_stt_error

\* start(), lines 116-146, as far as the capture thread sees it
Cap_Start ==
    /\ cap.pc = "idle"
    /\ sessions' = sessions + 1
    /\ current_session' = sessions + 1
    /\ metrics' = [session |-> sessions + 1, ended |-> FALSE]
    /\ is_running' = TRUE
    /\ shutdown_event' = FALSE
    /\ \E en \in BOOLEAN : cap' = [cap EXCEPT !.pc = "loop", !.enabled = en]
    /\ UNCHANGED <<errors, error_count, messages, lc, threads, saved>>
    /\ UNCHANGED <<stageVars, ihVars, rbVars, unitVars>>

\* stop(), lines 157-158, as far as the capture thread sees it
Cap_Stop ==
    /\ cap.pc # "idle" /\ ~shutdown_event
    /\ is_running' = FALSE
    /\ shutdown_event' = TRUE
    /\ UNCHANGED <<errors, error_count, messages, lc, threads,
                   current_session, sessions, metrics, saved, cap>>
    /\ UNCHANGED <<stageVars, ihVars, rbVars, unitVars>>

\* _stt_worker, line 194: the while condition
Cap_Loop ==
    /\ cap.pc = "loop"
    /\ cap' = [cap EXCEPT !.pc = IF is_running /\ ~shutdown_event
                                 THEN "stream" ELSE "done",
                          !.got = FALSE]
    /\ UNCHANGED <<is_running, shutdown_event, errors, error_count, messages,
                   lc, threads, current_session, sessions, metrics, saved>>
    /\ UNCHANGED <<stageVars, ihVars, rbVars, unitVars>>

\* a capture thread that calls handle_interruption() on every speech start
CallsHandleInterruption_OnSpeechStart(enabled, speech_start, playing) ==
    enabled /\ speech_start

\* _stt_worker, lines 201-205: the test that guards handle_interruption(),
\* enabled telling whether interruption_handler is not None
CallsHandleInterruption(enabled, speech_start, playing) ==
    enabled /\ speech_start /\ playing

\* the generation and synthesis threads and a client, as far as the
\* capture thread sees them: tts_playing is set (line 332) or cleared (line
\* 370), a response is put on the response queue (line 294), the manager's
\* handler is triggered, a transcript is taken from the transcript queue
\* (line 255)
Cap_OtherThreads ==
    /\ cap.pc # "idle" /\ is_running
    /\ \/ /\ tts_playing' = ~tts_playing
          /\ UNCHANGED <<response_queue, handler, transcript_queue>>
       \/ /\ response_queue = <<>>
          /\ response_queue' = <<1>>
          /\ UNCHANGED <<tts_playing, handler, transcript_queue>>
       \/ /\ cap.enabled /\ ~handler["mgr"].is_interrupted
          /\ handler' = [handler EXCEPT !["mgr"] =
                           TriggerInterruption(@, NoCalls, clock, {}).handler]
          /\ UNCHANGED <<tts_playing, response_queue, transcript_queue>>
       \/ /\ transcript_queue # <<>>
          /\ transcript_queue' = Tail(transcript_queue)
          /\ UNCHANGED <<tts_playing, response_queue, handler>>
    /\ UNCHANGED <<started, stt, hi, ai, tts>>
    /\ UNCHANGED <<is_running, shutdown_event, errors, error_count, messages,
                   lc, threads, current_session, sessions, metrics, saved,
                   cap>>
    /\ UNCHANGED <<ihVars, rbVars, unitVars>>

\* str.strip() as line 213 uses it: the text without its leading and
\* trailing whitespace
RECURSIVE LStrip(_)
LStrip(text) ==
    IF text # <<>> /\ Head(text) = " " THEN LStrip(Tail(text)) ELSE text

RECURSIVE RStrip(_)
RStrip(text) ==
    IF text # <<>> /\ text[Len(text)] = " "
    THEN RStrip(SubSeq(text, 1, Len(text) - 1))
    ELSE text

Strip(text) == RStrip(LStrip(text))

\* a capture thread that skips only the transcripts whose text is ""
SkipsTranscript_EmptyOnly(text) == text = <<>>

\* _stt_worker, lines 212-214: "if not transcript.text.strip(): continue"
SkipsTranscript(text) == Strip(text) = <<>>

\* _stt_worker, lines 197-230: the stream_transcripts() call delivers a
\* transcript, which is examined and for which handle_interruption() (lines
\* 382-417: the response queue is drained, tts_playing cleared, the flag
\* reset) is called or not, and which is then skipped or put on the
\* transcript queue (here: its text is); or the call ends (the stream is
\* exhausted, or the loop breaks at line 199) so that retry_count is reset;
\* or it raises
Cap_Stream ==
    /\ cap.pc = "stream"
    /\ \/ /\ ~cap.got
          /\ is_running /\ ~shutdown_event
          /\ Len(transcript_queue) < MaxQueued
          /\ \E sp \in BOOLEAN, text \in Texts :
               LET call == CallsHandleInterruption(cap.enabled, sp,
                                                   tts_playing)
               IN  /\ cap' = [cap EXCEPT !.got = TRUE,
                                !.last = [examined |-> TRUE,
                                          speech_start |-> sp,
                                          playing |-> tts_playing,
                                          called |-> call,
                                          text |-> text]]
                   /\ IF call
                      THEN /\ response_queue' = <<>>
                           /\ tts_playing' = FALSE
                           /\ handler' = [handler EXCEPT !["mgr"] = Reset(@)]
                      ELSE UNCHANGED <<response_queue, tts_playing, handler>>
                   /\ transcript_queue' =
                        IF SkipsTranscript(text) THEN transcript_queue
                        ELSE Append(transcript_queue, text)
       \/ /\ cap' = [cap EXCEPT !.pc = "loop", !.retry_count = 0,
                        !.fails = 0]
          /\ UNCHANGED <<response_queue, tts_playing, handler,
                         transcript_queue>>
       \/ /\ error_count < MaxStreamErrors
          /\ cap' = [cap EXCEPT !.pc = "except", !.fails = @ + 1]
          /\ UNCHANGED <<response_queue, tts_playing, handler,
                         transcript_queue>>
    /\ UNCHANGED <<started, stt, hi, ai, tts>>
    /\ UNCHANGED <<is_running, shutdown_event, errors, error_count, messages,
                   lc, threads, current_session, sessions, metrics, saved>>
    /\ UNCHANGED <<ihVars, rbVars, unitVars>>

\* a capture thread that compares retry_count with > instead of >=
Cap_Except_OffByOne ==
    /\ cap.pc = "except"
    /\ error_count' = error_count + 1
    /\ errors' = IF metrics.session # 0 THEN errors + 1 ELSE errors
    /\ IF cap.retry_count + 1 > max_retries
       THEN /\ is_running' = FALSE
            /\ cap' = [cap EXCEPT !.pc = "done", !.retry_count = @ + 1,
                         !.inits = @ + 1]
       ELSE /\ UNCHANGED is_running
            /\ cap' = [cap EXCEPT !.pc = "loop", !.retry_count = @ + 1,
                         !.inits = @ + 1]
    /\ UNCHANGED <<shutdown_event, messages, lc, threads, current_session,
                   sessions, metrics, saved>>
    /\ UNCHANGED <<stageVars, ihVars, rbVars, unitVars>>

\* _stt_worker, lines 232-243, and _handle_stt_error: the error is counted
\* and recorded, the STT provider is stopped and initialized again, and the
\* thread gives up when retry_count reaches max_retries
Cap_Except ==
    /\ cap.pc = "except"
    /\ error_count' = error_count + 1
    /\ errors' = IF metrics.session # 0 THEN errors + 1 ELSE errors
    /\ IF cap.retry_count + 1 >= max_retries
       THEN /\ is_running' = FALSE
            /\ cap' = [cap EXCEPT !.pc = "done", !.retry_count = @ + 1,
                         !.inits = @ + 1]
       ELSE /\ UNCHANGED is_running
            /\ cap' = [cap EXCEPT !.pc = "loop", !.retry_count = @ + 1,
                         !.inits = @ + 1]
    /\ UNCHANGED <<shutdown_event, messages, lc, threads, current_session,
                   sessions, metrics, saved>>
    /\ UNCHANGED <<stageVars, ihVars, rbVars, unitVars>>

CapNext ==
    \/ Cap_Start \/ Cap_Stop \/ Cap_Loop \/ Cap_Stream \/ Cap_Except
    \/ Cap_OtherThreads

SpecCap == Init /\ [][CapNext]_vars

\* ------------------------------------------------- voice activity detector
\* the verdicts the detector reads again: voice_frames is a deque of 100
\* verdicts of which process_audio_frame reads the length (is it more than
\* RatioWindow) and the last RatioWindow entries
KeepRecent(q) ==
    IF Len(q) > RatioWindow + 1
    THEN SubSeq(q, Len(q) - RatioWindow, Len(q))
    ELSE q

\* sum(list(self.voice_frames)[-10:])
RecentVoice(q) ==
    Cardinality({i \in 1..Len(q) : i > Len(q) - RatioWindow /\ q[i]})

\* a detector whose return value is is_voice_active itself
ProcessAudioFrame_LevelTriggered(d, is_voice, level_voice) ==
    IF is_voice = "raises"
    THEN [detector |-> d, result |-> FALSE]
    ELSE LET q == KeepRecent(Append(d.voice_frames,
                                    (is_voice = "speech") /\ level_voice))
             active == RecentVoice(q) >= voice_threshold_tenths
         IN  IF Len(q) > RatioWindow
             THEN [detector |-> [d EXCEPT !.voice_frames = q,
                                          !.is_voice_active = active],
                   result |-> active]
             ELSE [detector |-> [d EXCEPT !.voice_frames = q],
                   result |-> FALSE]

\* InterruptionHandler.process_audio_frame, lines 80-116, on a frame for
\* which vad.is_speech answers is_voice ("speech", "other", or "raises" when
\* it raises) and whose level is above dynamic_threshold or not: the
\* detector after the call and the value returned
ProcessAudioFrame(d, is_voice, level_voice) ==
    IF is_voice = "raises"
    THEN [detector |-> d, result |-> FALSE]
    ELSE LET q == KeepRecent(Append(d.voice_frames,
                                    (is_voice = "speech") /\ level_voice))
             active == RecentVoice(q) >= voice_threshold_tenths
         IN  IF Len(q) > RatioWindow
             THEN [detector |-> [d EXCEPT !.voice_frames = q,
                                          !.is_voice_active = active],
                   result |-> ~d.is_voice_active /\ active]
             ELSE [detector |-> [d EXCEPT !.voice_frames = q],
                   result |-> FALSE]

\* the audio thread hands one frame to process_audio_frame
VAD_Frame ==
    /\ vad.n < MaxFrames
    /\ \E is_voice \in {"speech", "other", "raises"}, level_voice \in BOOLEAN :
         LET r == ProcessAudioFrame(vad, is_voice, level_voice)
             voiced == (is_voice = "speech") /\ level_voice
         IN  vad' = [r.detector EXCEPT
                       !.n = @ + 1,
                       !.last = is_voice,
                       !.ret = r.result,
                       !.was_active = vad.is_voice_active,
                       !.run = IF voiced THEN Min(@ + 1, RatioWindow) ELSE 0,
                       !.fired = (@ \/ r.result),
                       !.gap = IF r.result THEN FALSE
                               ELSE (@ \/ ~r.detector.is_voice_active)]
    /\ UNCHANGED <<pipeVars, ihVars, rbVars, concVars, mc, stats, lat>>

VADNext == VAD_Frame

SpecVAD == Init /\ [][VADNext]_vars


\* ------------------------------------------------- MetricsCollector
\* MetricsCollector.start_session
MC_StartSession ==
    /\ mc.starts < MaxSessions
    /\ mc' = [mc EXCEPT !.current_session = NewSessionMetrics(mc.starts + 1),
                        !.starts = @ + 1]
    /\ UNCHANGED <<pipeVars, ihVars, rbVars, concVars, vad, stats, lat>>

\* MetricsCollector.end_session: end_time is set when there is a session
MC_EndSession ==
    /\ mc.current_session.session_id # 0
    /\ ~mc.current_session.ended
    /\ mc' = [mc EXCEPT !.current_session.ended = TRUE]
    /\ UNCHANGED <<pipeVars, ihVars, rbVars, concVars, vad, stats, lat>>

\* record_stt_latency, record_ai_latency, record_tts_latency and
\* record_e2e_latency (lines 85-103): the sample is appended when
\* current_session is not None
MC_RecordLatency(kind, latency_ms) ==
    /\ mc.records < MaxRecords
    /\ mc' = IF mc.current_session.session_id # 0
             THEN [mc EXCEPT !.current_session[kind] = Append(@, latency_ms),
                             !.records = @ + 1]
             ELSE [mc EXCEPT !.records = @ + 1]
    /\ UNCHANGED <<pipeVars, ihVars, rbVars, concVars, vad, stats, lat>>

\* record_interaction, record_error and record_interruption (lines 105-124)
MC_RecordEvent(what) ==
    /\ mc.records < MaxRecords
    /\ mc' = IF mc.current_session.session_id = 0
             THEN [mc EXCEPT !.records = @ + 1]
             ELSE IF what = "interaction"
             THEN [mc EXCEPT !.current_session.total_interactions = @ + 1,
                             !.records = @ + 1]
             ELSE IF what = "error"
             THEN [mc EXCEPT !.current_session.errors = Append(@, "error"),
                             !.records = @ + 1]
             ELSE [mc EXCEPT !.current_session.interruptions = @ + 1,
                             !.records = @ + 1]
    /\ UNCHANGED <<pipeVars, ihVars, rbVars, concVars, vad, stats, lat>>

MCNext ==
    \/ MC_StartSession \/ MC_EndSession
    \/ \E kind \in LatencyKinds, v \in RecordedValues :
         MC_RecordLatency(kind, v)
    \/ \E what \in {"interaction", "error", "interruption"} :
         MC_RecordEvent(what)

SpecMC == Init /\ [][MCNext]_vars

\* ------------------------------------------------- latency statistics
\* sorted(): xs in ascending order
RECURSIVE Insert(_, _)
Insert(x, xs) ==
    IF xs = <<>> THEN <<x>>
    ELSE IF x <= Head(xs) THEN <<x>> \o xs
    ELSE <<Head(xs)>> \o Insert(x, Tail(xs))

RECURSIVE Sorted(_)
Sorted(xs) == IF xs = <<>> THEN <<>> ELSE Insert(Head(xs), Sorted(Tail(xs)))

\* min(), max() and sum() of a list
RECURSIVE MinOf(_)
MinOf(xs) ==
    IF Len(xs) = 1 THEN xs[1]
    ELSE LET m == MinOf(Tail(xs)) IN IF Head(xs) < m THEN Head(xs) ELSE m

RECURSIVE MaxOf(_)
MaxOf(xs) ==
    IF Len(xs) = 1 THEN xs[1]
    ELSE LET m == MaxOf(Tail(xs)) IN IF Head(xs) > m THEN Head(xs) ELSE m

RECURSIVE SumOf(_)
SumOf(xs) == IF xs = <<>> THEN 0 ELSE Head(xs) + SumOf(Tail(xs))

\* percentile(p) of _calculate_latency_stats, lines 134-138, for p =
\* percent / 100: int(p * count), clamped to count - 1, indexes the list
\* (int(p * count) is the exact floor for the three percentiles used and
\* every count the model reaches)
Percentile(xs, count, percent) ==
    LET index == (percent * count) \div 100
    IN  xs[(IF index >= count THEN count - 1 ELSE index) + 1]

\* statistics whose percentiles index the list as it was recorded
CalculateLatencyStats_Unsorted(latencies) ==
    IF latencies = <<>>
    THEN NoLatencyMetrics
    ELSE LET count == Len(latencies)
         IN  [min |-> MinOf(latencies), max |-> MaxOf(latencies),
              avg |-> [num |-> SumOf(latencies), den |-> count],
              p50 |-> Percentile(latencies, count, 50),
              p95 |-> Percentile(latencies, count, 95),
              p99 |-> Percentile(latencies, count, 99),
              samples |-> count]

\* MetricsCollector._calculate_latency_stats; avg is the quotient num / den
CalculateLatencyStats(latencies) ==
    IF latencies = <<>>
    THEN NoLatencyMetrics
    ELSE LET sorted_latencies == Sorted(latencies)
             count == Len(sorted_latencies)
         IN  [min |-> MinOf(latencies), max |-> MaxOf(latencies),
              avg |-> [num |-> SumOf(latencies), den |-> count],
              p50 |-> Percentile(sorted_latencies, count, 50),
              p95 |-> Percentile(sorted_latencies, count, 95),
              p99 |-> Percentile(sorted_latencies, count, 99),
              samples |-> count]

\* one more latency is recorded
Stats_Record(v) ==
    /\ Len(stats.latencies) < MaxLatencies
    /\ stats' = [latencies |-> Append(stats.latencies, v),
                 computed |-> FALSE, result |-> NoLatencyMetrics]
    /\ UNCHANGED <<pipeVars, ihVars, rbVars, concVars, vad, mc, lat>>

\* get_summary() computes the statistics of the list
Stats_Calculate ==
    /\ ~stats.computed
    /\ stats' = [stats EXCEPT !.computed = TRUE,
                   !.result = CalculateLatencyStats(stats.latencies)]
    /\ UNCHANGED <<pipeVars, ihVars, rbVars, concVars, vad, mc, lat>>

StatsNext ==
    \/ \E v \in LatencyValues : Stats_Record(v)
    \/ Stats_Calculate

SpecStats == Init /\ [][StatsNext]_vars


\* ------------------------------------------------- latency samples
\* a thread is back at its while condition
LatToPoll(th) == [LatThread EXCEPT !.pc = "poll"]

\* the stream of thread th yields a chunk: the thread with the chunk in hand
LatYield(th, c) ==
    [th EXCEPT !.pc = "chunk", !.n = @ + 1, !.chunk = c,
               !.flagged = IF th.n = 0 THEN c.is_first ELSE @]

\* the for loop of thread th is over: its stream ended or raised, or the
\* loop was left at a running or interruption check
LatEnd(th, how) == [th EXCEPT !.pc = how, !.chunk = NoChunk]

\* stop(), or the capture thread giving up
Lat_Stop ==
    /\ lat.running
    /\ lat' = [lat EXCEPT !.running = FALSE]
    /\ UNCHANGED <<pipeVars, ihVars, rbVars, concVars, vad, mc, stats>>

\* trigger_interruption() on the manager's handler
Lat_Trigger ==
    /\ lat.running /\ ~lat.interrupted
    /\ lat' = [lat EXCEPT !.interrupted = TRUE]
    /\ UNCHANGED <<pipeVars, ihVars, rbVars, concVars, vad, mc, stats>>

\* handle_interruption(), lines 382-417: the response queue is drained and
\* the flag is reset
Lat_HandleInterruption ==
    /\ lat.running
    /\ lat.interrupted \/ lat.response_queue # <<>>
    /\ lat' = [lat EXCEPT !.interrupted = FALSE, !.response_queue = <<>>]
    /\ UNCHANGED <<pipeVars, ihVars, rbVars, concVars, vad, mc, stats>>

\* _ai_worker, lines 251-264: the while condition and transcript_queue.get
Lat_AIPoll ==
    /\ lat.ai.pc = "poll"
    /\ IF ~lat.running
       THEN lat' = [lat EXCEPT !.ai.pc = "done"]
       ELSE /\ lat.turns < MaxTurns
            /\ lat' = [lat EXCEPT !.turns = @ + 1,
                                  !.ai.pc = "next", !.ai.turn = lat.turns + 1]
    /\ UNCHANGED <<pipeVars, ihVars, rbVars, concVars, vad, mc, stats>>

\* one next() on stream_response: a chunk with any is_first flag, final
\* (with or without text) or not, or the end of the stream, or an exception
Lat_AINext ==
    /\ lat.ai.pc = "next"
    /\ \/ /\ ~lat.ai.final /\ lat.ai.n < MaxChunks
          /\ \E f \in BOOLEAN :
               lat' = [lat EXCEPT !.ai = LatYield(@,
                         [is_first |-> f, is_final |-> FALSE, full |-> FALSE])]
       \/ /\ ~lat.ai.final
          /\ \E f \in BOOLEAN, full \in BOOLEAN :
               lat' = [lat EXCEPT !.ai = LatYield(@,
                         [is_first |-> f, is_final |-> TRUE, full |-> full])]
       \/ lat' = [lat EXCEPT !.ai = LatEnd(@, "ended")]
    /\ UNCHANGED <<pipeVars, ihVars, rbVars, concVars, vad, mc, stats>>

\* a generation thread that records a sample for every chunk flagged is_first
Lat_AIChunk_EveryFlagged ==
    /\ lat.ai.pc = "chunk"
    /\ IF ~lat.running \/ lat.interrupted
       THEN lat' = [lat EXCEPT !.ai = LatEnd(@, "left")]
       ELSE lat' = [lat EXCEPT
              !.ai.samples = IF lat.ai.chunk.is_first THEN @ + 1 ELSE @,
              !.ai.recorded = (@ \/ lat.ai.chunk.is_first),
              !.ai.final = (@ \/ lat.ai.chunk.is_final),
              !.response_queue =
                  IF lat.ai.chunk.is_final /\ lat.ai.chunk.full
                  THEN Append(@, lat.ai.turn) ELSE @,
              !.ai.pc = "next"]
    /\ UNCHANGED <<pipeVars, ihVars, rbVars, concVars, vad, mc, stats>>

\* _ai_worker, lines 267-294, on the chunk in hand: the running check, the
\* interruption check, the first-token sample and the put of a final chunk
\* with text
Lat_AIChunk ==
    /\ lat.ai.pc = "chunk"
    /\ IF ~lat.running \/ lat.interrupted
       THEN lat' = [lat EXCEPT !.ai = LatEnd(@, "left")]
       ELSE lat' = [lat EXCEPT
              !.ai.samples = IF lat.ai.chunk.is_first /\ ~lat.ai.recorded
                             THEN @ + 1 ELSE @,
              !.ai.recorded = (@ \/ lat.ai.chunk.is_first),
              !.ai.final = (@ \/ lat.ai.chunk.is_final),
              !.response_queue =
                  IF lat.ai.chunk.is_final /\ lat.ai.chunk.full
                  THEN Append(@, lat.ai.turn) ELSE @,
              !.ai.pc = "next"]
    /\ UNCHANGED <<pipeVars, ihVars, rbVars, concVars, vad, mc, stats>>

\* a synthesis thread whose response_queue.get has no timeout: it tests its
\* while condition only when a response arrives
Lat_TTSPoll_Blocking ==
    /\ lat.tts.pc = "poll"
    /\ lat.response_queue # <<>>
    /\ lat' = IF ~lat.running
              THEN [lat EXCEPT !.tts.pc = "done"]
              ELSE [lat EXCEPT !.response_queue = Tail(@),
                               !.tts.pc = "next",
                               !.tts.turn = Head(lat.response_queue)]
    /\ UNCHANGED <<pipeVars, ihVars, rbVars, concVars, vad, mc, stats>>

\* _tts_worker, lines 319-334: the while condition and response_queue.get
Lat_TTSPoll ==
    /\ lat.tts.pc = "poll"
    /\ IF ~lat.running
       THEN lat' = [lat EXCEPT !.tts.pc = "done"]
       ELSE /\ lat.response_queue # <<>>
            /\ lat' = [lat EXCEPT !.response_queue = Tail(@),
                                  !.tts.pc = "next",
                                  !.tts.turn = Head(lat.response_queue)]
    /\ UNCHANGED <<pipeVars, ihVars, rbVars, concVars, vad, mc, stats>>

\* one next() on stream_audio: an audio chunk with any is_first flag, final
\* or not, or the end of the stream, or an exception
Lat_TTSNext ==
    /\ lat.tts.pc = "next"
    /\ \/ /\ ~lat.tts.final /\ lat.tts.n < MaxAudio
          /\ \E f \in BOOLEAN :
               lat' = [lat EXCEPT !.tts = LatYield(@,
                         [is_first |-> f, is_final |-> FALSE, full |-> FALSE])]
       \/ /\ ~lat.tts.final
          /\ \E f \in BOOLEAN :
               lat' = [lat EXCEPT !.tts = LatYield(@,
                         [is_first |-> f, is_final |-> TRUE, full |-> FALSE])]
       \/ lat' = [lat EXCEPT !.tts = LatEnd(@, "ended")]
    /\ UNCHANGED <<pipeVars, ihVars, rbVars, concVars, vad, mc, stats>>

\* _tts_worker, lines 339-362, on the chunk in hand: the running check, the
\* interruption check, play_chunk (which returns or raises) and the
\* first-audio sample
Lat_TTSChunk ==
    /\ lat.tts.pc = "chunk"
    /\ \/ /\ ~lat.running \/ lat.interrupted
          /\ lat' = [lat EXCEPT !.tts = LatEnd(@, "left")]
       \/ /\ lat.running /\ ~lat.interrupted
          /\ \/ lat' = [lat EXCEPT !.tts = LatEnd(@, "left")]
             \/ lat' = [lat EXCEPT
                   !.tts.samples =
                       IF lat.tts.chunk.is_first /\ ~lat.tts.recorded
                       THEN @ + 1 ELSE @,
                   !.tts.recorded = (@ \/ lat.tts.chunk.is_first),
                   !.tts.final = (@ \/ lat.tts.chunk.is_final),
                   !.tts.pc = "next"]
    /\ UNCHANGED <<pipeVars, ihVars, rbVars, concVars, vad, mc, stats>>

\* _ai_worker, lines 296-311: after the for loop, or in the except clause,
\* the thread goes back to its while condition
Lat_AIEnd ==
    /\ lat.ai.pc \in {"ended", "left"}
    /\ lat' = [lat EXCEPT !.ai = LatToPoll(@)]
    /\ UNCHANGED <<pipeVars, ihVars, rbVars, concVars, vad, mc, stats>>

\* _tts_worker, lines 364-378: the except and finally clauses, then back to
\* the while condition
Lat_TTSEnd ==
    /\ lat.tts.pc \in {"ended", "left"}
    /\ lat' = [lat EXCEPT !.tts = LatToPoll(@)]
    /\ UNCHANGED <<pipeVars, ihVars, rbVars, concVars, vad, mc, stats>>

LatNext ==
    \/ Lat_Stop \/ Lat_Trigger \/ Lat_HandleInterruption
    \/ Lat_AIPoll \/ Lat_AINext \/ Lat_AIChunk \/ Lat_AIEnd
    \/ Lat_TTSPoll \/ Lat_TTSNext \/ Lat_TTSChunk \/ Lat_TTSEnd

SpecLat == Init /\ [][LatNext]_vars

\* the steps of the generation thread and those of the synthesis thread
Lat_AIStep == Lat_AIPoll \/ Lat_AINext \/ Lat_AIChunk \/ Lat_AIEnd
Lat_TTSStep == Lat_TTSPoll \/ Lat_TTSNext \/ Lat_TTSChunk \/ Lat_TTSEnd

\* the two threads are scheduled, and each takes its next step when it has
\* one: a queue poll returns within its timeout, a backend stream yields a
\* chunk, ends or raises, play_chunk returns or raises
SpecLatFair == SpecLat /\ WF_vars(Lat_AIStep) /\ WF_vars(Lat_TTSStep)


\* ------------------------------------------------- properties of the pipeline
\* C1: when handle_interruption() has run (begun and returned) while the
\* generation thread was streaming the response for a transcript, no chunk of
\* that transcript is put on the response queue afterwards.
C1_NoChunkAfterInterruption ==
    [][ai.hi_done => Len(response_queue') <= Len(response_queue)]_vars

\* C2: when handle_interruption() has returned and no stage thread has taken a
\* step since the call began, the response queue is empty and tts_playing is
\* false, whatever the queue held and whatever tts_playing was at the call.
C2_InterruptionClearsState ==
    hi.returned => (response_queue = <<>> /\ ~tts_playing)

\* a clean call that began with a non-empty response queue and tts_playing
C2_Witness ==
    /\ hi.returned
    /\ hi.entry_q > 0 /\ hi.entry_playing
    /\ response_queue = <<>> /\ ~tts_playing

\* C3: every handle_interruption() call first triggers the handler, so the
\* flag is set when the call reaches its final step, the reset.
C3_CallTriggersFirst ==
    hi.pc = "reset" => IsInterruptedAtomic(handler["mgr"])

\* C4: the pipeline has one interruption flag: while the trigger made by the
\* audio callback is in force, the flag the stages poll is set.
C4_SingleSharedFlag ==
    handler["stt"].is_interrupted => IsInterruptedAtomic(handler["mgr"])

\* C6: whenever the synthesis thread is about to poll the response queue,
\* tts_playing is false, however it left the previous response.
C6_NotPlayingAtPoll ==
    tts.pc = "poll" => ~tts_playing

\* the synthesis thread is back at the queue after an exception from
\* stream_audio or play_chunk
C6_Witness ==
    tts.pc = "poll" /\ tts.exit = "error" /\ ~tts_playing

\* C7 as stated: tts_playing is true iff the synthesis thread has played a
\* non-final chunk of its response and has neither played the final chunk
\* nor been interrupted.
C7_PlayingIffChunkInFlight ==
    tts_playing <=> (/\ tts.played_nonfinal
                     /\ ~tts.final_seen
                     /\ ~tts.interrupted /\ ~tts.cleared)

\* C7 as amended: tts_playing is true iff the synthesis thread has set it
\* for the response it is handling (after the dequeue, before the first
\* chunk is requested), has not yet run the finally block of that response,
\* and handle_interruption() has not cleared it since.
C7_PlayingIffTurnOpen ==
    tts_playing <=> (tts.pc \in TTSHandling /\ ~tts.cleared)

\* handle_interruption() cleared tts_playing under a synthesis thread that
\* goes on playing the chunks of its response
C7_Witness ==
    tts.pc = "play" /\ tts.cleared /\ ~tts_playing

\* C15: an exception from stream_response, stream_audio or play_chunk does
\* not stop the pipeline: once an error was recorded and for as long as
\* stop() is not called, is_running is true and the generation and synthesis
\* loops are alive, and the response that failed is not put back on the
\* response queue.
C15_StageErrorKeepsLoop ==
    /\ (errors > 0 /\ ~shutdown_event) =>
           (is_running /\ ai.pc # "done" /\ tts.pc # "done")
    /\ (tts.pc = "finally" /\ tts.exit = "error") =>
           \A i \in 1..Len(response_queue) : response_queue[i] # tts.resp

\* the synthesis thread has taken the next response off the queue after the
\* previous one ended in an exception
C15_Witness ==
    /\ tts.pc = "start" /\ tts.exit = "error"
    /\ errors > 0 /\ is_running /\ ~shutdown_event

\* steps that abandon a turn because of an interruption: a stage that
\* observes the flag at its check, the generator ending because
\* stop_streaming() cleared is_streaming, and the steps of
\* handle_interruption() itself
AbandonStep ==
    \/ /\ ai.pc = "check" /\ is_running /\ ~shutdown_event
       /\ IsInterruptedAtomic(handler["mgr"]) /\ ai'.pc = "poll"
    \/ /\ tts.pc = "check" /\ is_running /\ ~shutdown_event
       /\ IsInterruptedAtomic(handler["mgr"]) /\ tts'.pc = "finally"
    \/ /\ ai.pc = "next" /\ ai.gen = "loop" /\ ~ai.is_streaming
       /\ ai'.pc = "check"
    \/ hi'.pc # hi.pc
    \/ /\ hi.pc = "drain" /\ response_queue' # response_queue /\ tts' = tts

QueueCapacity == MaxTranscripts - 1

\* C17: the transcript queue and the response queue never hold more than a
\* fixed small capacity of items (a put on a full transcript queue drops the
\* oldest pending transcript).
C17_QueuesBounded ==
    /\ Len(transcript_queue) <= QueueCapacity
    /\ Len(response_queue) <= QueueCapacity

\* C18: the transcript queue holds at most one transcript at a time, and
\* when handle_interruption() returns the transcripts queued before it
\* are gone.
C18_OnePerEpoch ==
    /\ Len(transcript_queue) <= 1
    /\ stt.pc = "enqueue" => transcript_queue = <<>>

C5_TriggerIdempotent ==
    /\ [](ih_obs.triggers >= 1 /\ ih_obs.pure =>
            \A c \in CallbackIds : ih_calls[c] = Registrations(ih.callbacks, c))
    /\ [][ih_obs.triggers = 0 /\ ih_obs'.triggers = 1 =>
            ih'.is_interrupted /\ ih'.last_time = clock]_vars
    /\ [][ih_obs.triggers >= 1 /\ ih_obs'.triggers = ih_obs.triggers + 1 =>
            ih' = ih /\ ih_calls' = ih_calls]_vars

\* three consecutive triggers on a handler with two registered callbacks
C5_Witness ==
    /\ ih_obs.triggers >= 3 /\ ih_obs.pure
    /\ Len(ih.callbacks) = 2
    /\ \E c \in CallbackIds : ih_calls[c] >= 1


\* ------------------------------------------------- properties of RingBuffer
\* the accepted samples that no read has returned yet, in write order
Unread == SubSeq(rb_log.written, Len(rb_log.read) + 1, Len(rb_log.written))

IsPrefix(p, q) == Len(p) <= Len(q) /\ SubSeq(q, 1, Len(p)) = p

\* C8: a write of more samples than the free space returns less than the
\* length of its array, and every accepted sample that was not read yet is
\* what the following reads return, unchanged and in write order.
C8_OverflowDropsNoUnread ==
    /\ (rb_log.last_op = "write" /\ rb_log.last_n > rb_log.last_room) =>
           rb_log.last_len < rb_log.last_n
    /\ Read(rb, RBSize).result = Unread

\* C9: as long as every write was accepted in full, the reads return the
\* written samples in order, and once nothing is left to read they have
\* returned all of them.
C9_ReadsReturnWrites ==
    rb_log.all_full =>
        /\ IsPrefix(rb_log.read, rb_log.written)
        /\ (AvailableRead(rb) = 0 => rb_log.read = rb_log.written)

\* C10: available_read() is the sum of the counts returned by write minus the
\* number of samples returned by read, and read(n) returns min(n,
\* available_read()) samples.
C10_AvailableReadCounts ==
    /\ AvailableRead(rb) = Len(rb_log.written) - Len(rb_log.read)
    /\ rb_log.last_op = "read" =>
           rb_log.last_len = Min(rb_log.last_n, rb_log.last_room)


\* ------------------------------------------------- properties of start and stop
\* the client thread is inside stop()
InStop == lc.pc \in (DOMAIN AfterStop) \cup (DOMAIN AfterJoin)
                      \cup {"end_metrics", "save", "hung"}

\* C11: a stop() that has begun returns, whatever the backends' stop()
\* methods and the worker threads do.
C11_StopReturns == InStop ~> (lc.pc = "idle")

\* C12: once stop() has returned, is_running is false, the shutdown event is
\* set, the metrics session (if one was started) is ended and the current
\* session (if there is one) was handed to save_session, also when a join
\* timed out or a backend's stop() raised.
C12_StopPostcondition ==
    (lc.pc = "idle" /\ lc.outcome = "stop_returned") =>
        /\ ~is_running
        /\ shutdown_event
        /\ metrics.session # 0 => metrics.ended
        /\ current_session # 0 => saved = current_session

\* stop() has returned after a backend's stop() raised and a join timed out
\* on a thread that is still alive
C12_Witness ==
    /\ lc.pc = "idle" /\ lc.outcome = "stop_returned"
    /\ lc.leaked /\ lc.backend_raised
    /\ current_session # 0 /\ metrics.session # 0
    /\ \E s \in Stages : threads[s].ref = "alive"

\* C13: a start() called after a start() that returned, with no stop() in
\* between and the manager still running, creates no session, and the
\* manager never has more than one capture, one generation and one
\* synthesis thread alive.
C13_SecondStartRefused ==
    [][/\ (lc.outcome = "start_returned" /\ is_running /\ ~shutdown_event
            /\ (lc.calls = 1 \/ (lc.calls = 2 /\ lc.pc # "idle")))
          => /\ (lc'.calls = 2 /\ is_running') =>
                    (sessions' = sessions
                       /\ current_session' = current_session)
             /\ \A s \in Stages : Alive(s)' <= 1]_vars


C20_OneTurnLogged ==
    (shutdown_event /\ stt.n = 1 /\ tts.resp = 1 /\ tts.final_seen) =>
        /\ Len(messages) = 2
        /\ messages[1].role = "user"
        /\ messages[2].role = "assistant"


\* ------------------------------------------------- properties of the detector
\* C22: process_audio_frame returns true exactly on a frame at which
\* is_voice_active changes from false to true, and a call that returns true
\* after an earlier one that did is separated from it by a frame after which
\* is_voice_active was false.
C22_EdgeTriggered ==
    /\ [](vad.n > 0 =>
            (vad.ret <=> (~vad.was_active /\ vad.is_voice_active)))
    /\ [][(vad'.n = vad.n + 1 /\ vad'.ret /\ vad.fired) => vad.gap]_vars

\* a second speech start: the detector became active, then inactive, then
\* active again
C22_Witness ==
    vad.ret /\ vad.fired /\ vad.n = MaxFrames /\ vad.was_active = FALSE
    /\ \E i \in 1..Len(vad.voice_frames) : ~vad.voice_frames[i]

\* C23: once ten frames in a row were each called speech by the classifier
\* with a level above dynamic_threshold, is_voice_active is true.
C23_ActiveWithinTenFrames ==
    vad.run >= RatioWindow => vad.is_voice_active

\* C24: a frame on which the classifier raises makes process_audio_frame
\* return false and enters the rolling window as a non-voice verdict, from
\* which is_voice_active is taken.
C24_RaiseCountsAsSilence ==
    [][(vad'.n = vad.n + 1 /\ vad'.last = "raises") =>
          /\ ~vad'.ret
          /\ vad'.voice_frames = KeepRecent(Append(vad.voice_frames, FALSE))
          /\ (Len(vad'.voice_frames) > RatioWindow =>
                (vad'.is_voice_active <=>
                   RecentVoice(vad'.voice_frames) >= voice_threshold_tenths))
      ]_vars


\* ------------------------------------------------- properties of reset and callbacks
\* C25: a reset() clears the flag and leaves _last_interruption_time and the
\* registered callbacks as they were, and the first trigger_interruption()
\* after a reset() sets the flag and invokes every registration of every
\* callback once.
C25_ResetKeepsTimeAndCallbacks ==
    /\ [][(ih_obs.triggers > 0 /\ ih_obs'.triggers = 0) =>
            /\ ~ih'.is_interrupted
            /\ ih'.last_time = ih.last_time
            /\ ih'.callbacks = ih.callbacks]_vars
    /\ [][(ih_obs.total > 0 /\ ih_obs.triggers = 0 /\ ih_obs'.triggers = 1) =>
            /\ ih'.is_interrupted
            /\ \A c \in CallbackIds :
                 ih_calls'[c] = Registrations(ih.callbacks, c)]_vars

\* a trigger after a reset() that followed an earlier trigger has invoked
\* the registered callback again
C25_Witness ==
    /\ ih_obs.total >= 2 /\ ih_obs.triggers = 1
    /\ ih.is_interrupted /\ ih.last_time > 0
    /\ Len(ih.callbacks) >= 1
    /\ \A i \in 1..Len(ih.callbacks) : ih_calls[ih.callbacks[i]] >= 1

\* C26: when a callback raised during the trigger_interruption() call that
\* set the flag, every registration of every callback was still invoked
\* once, the flag is set and the call did not raise.
C26_RaisingCallbackIsolated ==
    (ih_obs.raised /\ ih_obs.triggers >= 1 /\ ih_obs.pure) =>
        /\ \A c \in CallbackIds : ih_calls[c] = Registrations(ih.callbacks, c)
        /\ ih.is_interrupted
        /\ ~ih_obs.propagated

\* two different callbacks are registered, one of them raised, and both were
\* invoked once
C26_Witness ==
    /\ ih_obs.raised /\ ih_obs.triggers >= 1 /\ ih_obs.pure
    /\ Len(ih.callbacks) = 2 /\ ih.callbacks[1] # ih.callbacks[2]
    /\ \A c \in CallbackIds : ih_calls[c] = 1
    /\ ih.is_interrupted


\* ------------------------------------------------- properties of the metrics
\* the sample that nearest rank picks for percent/100: the one with at most
\* k samples below it and more than k samples not above it, k being
\* floor(percent * count / 100) and at most count - 1
IsNearestRank(v, xs, percent) ==
    LET count == Len(xs)
        k == Min((percent * count) \div 100, count - 1)
    IN  /\ \E i \in 1..count : xs[i] = v
        /\ Cardinality({i \in 1..count : xs[i] < v}) <= k
        /\ Cardinality({i \in 1..count : xs[i] <= v}) > k

\* the sum of the first n elements of xs
PrefixSum(xs, n) ==
    LET f[i \in 0..n] == IF i = 0 THEN 0 ELSE f[i - 1] + xs[i] IN f[n]

\* C27: the statistics of a non-empty latency list are its smallest sample,
\* its largest sample, sum / count, and the nearest-rank samples for 0.50,
\* 0.95 and 0.99; for [100, 110, 120, 130, 140] they are avg 120, min 100,
\* max 140 and p50 120.
C27_LatencyStats ==
    (stats.computed /\ stats.latencies # <<>>) =>
        LET xs == stats.latencies
            r == stats.result
        IN  /\ \E i \in 1..Len(xs) : xs[i] = r.min
            /\ \A i \in 1..Len(xs) : r.min <= xs[i]
            /\ \E i \in 1..Len(xs) : xs[i] = r.max
            /\ \A i \in 1..Len(xs) : r.max >= xs[i]
            /\ r.avg.num = PrefixSum(xs, Len(xs)) /\ r.avg.den = Len(xs)
            /\ IsNearestRank(r.p50, xs, 50)
            /\ IsNearestRank(r.p95, xs, 95)
            /\ IsNearestRank(r.p99, xs, 99)
            /\ r.samples = Len(xs)
            /\ xs = <<100, 110, 120, 130, 140>> =>
                  /\ r.avg.num = 120 * r.avg.den
                  /\ r.min = 100 /\ r.max = 140 /\ r.p50 = 120

\* the statistics of a list of five different samples recorded out of order
C27_Witness ==
    /\ stats.computed
    /\ stats.latencies = <<140, 100, 130, 110, 120>>
    /\ stats.result.p50 = 120 /\ stats.result.p95 = 140

\* C28: once end_session() was called, the samples and counters of the
\* session stay as they are until the next start_session().
C28_EndSessionFreezes ==
    [][(mc.current_session.ended /\ mc'.starts = mc.starts) =>
          mc'.current_session = mc.current_session]_vars


\* ------------------------------------------------- properties of the latency samples
\* C21: no turn has more than one AI latency sample or more than one TTS
\* latency sample, and when the generation stream or the synthesis stream
\* of a turn flagged its first chunk is_first and has ended after its final
\* chunk was handled, with no interruption and no stop, the turn has exactly
\* one sample of that kind.
C21_OneSamplePerTurn ==
    /\ lat.ai.samples <= 1
    /\ lat.tts.samples <= 1
    /\ (lat.ai.pc = "ended" /\ lat.ai.final /\ lat.ai.flagged) =>
           lat.ai.samples = 1
    /\ (lat.tts.pc = "ended" /\ lat.tts.final /\ lat.tts.flagged) =>
           lat.tts.samples = 1

\* the synthesis stream of the second turn has ended after its final chunk
\* was played; more than one of its chunks was flagged is_first and one
\* sample was recorded
C21_Witness ==
    /\ lat.tts.pc = "ended" /\ lat.tts.final /\ lat.tts.flagged
    /\ lat.tts.turn = MaxTurns /\ lat.tts.n > 1 /\ lat.tts.samples = 1
    /\ lat.ai.pc = "poll" /\ lat.running /\ ~lat.interrupted


\* ------------------------------------------------- properties of the stage loops
\* C29: once is_running is false after start(), set by stop() or by the
\* capture thread giving up, the generation thread and the synthesis thread
\* leave their loops.
C29_StagesTerminate ==
    ~lat.running ~> (lat.ai.pc = "done" /\ lat.tts.pc = "done")

\* both threads have left their loops after is_running was cleared in the
\* middle of a run: a response is still waiting on the response queue
C29_Witness ==
    /\ ~lat.running
    /\ lat.ai.pc = "done" /\ lat.tts.pc = "done"
    /\ lat.turns >= 1 /\ lat.response_queue # <<>>


\* ------------------------------------------------- properties of the interruption check
\* C30: the capture thread has called handle_interruption() for the
\* transcript it examined last exactly if interruptions are enabled, the
\* transcript had is_speech_start true and tts_playing was true when it was
\* examined; examining a speech-start transcript while tts_playing is false
\* changes neither the response queue nor the interruption flag.
C30_InterruptOnlyWhilePlaying ==
    /\ [](cap.last.examined =>
            (cap.last.called <=>
               (cap.enabled /\ cap.last.speech_start /\ cap.last.playing)))
    /\ [][(~cap.got /\ cap'.got /\ cap'.last.speech_start /\ ~tts_playing) =>
            (response_queue' = response_queue /\ handler' = handler)]_vars

\* a speech-start transcript was examined while nothing was playing: no call,
\* the pending response and the set flag are still there
C30_Witness ==
    /\ cap.got /\ cap.enabled
    /\ cap.last.speech_start /\ ~cap.last.playing /\ ~cap.last.called
    /\ response_queue # <<>> /\ handler["mgr"].is_interrupted

\* ------------------------------------------------- properties of a failed start and of the backends' stop
\* C34: when a backend's initialize() has raised inside start() and start()
\* has raised, the pipeline is not running: is_running (which get_status()
\* reports) is false.
C34_FailedStartNotRunning ==
    (lc.pc = "idle" /\ lc.outcome = "start_raised") => ~is_running

\* C35: stop() goes on to joining the worker threads only after the stop()
\* of the last of the three backends (STT, AI, TTS): an exception from an
\* earlier backend's stop() does not skip the backends after it.
C35_AllBackendsStopped ==
    [][(lc.pc \in DOMAIN AfterStop /\ lc'.pc \in DOMAIN AfterJoin)
          => lc.pc = "stop_tts"]_vars

\* ------------------------------------------------- properties of the capture thread's retry count
\* C36: once the stream_transcripts() call in progress has delivered a
\* transcript, the capture thread's retry count is 0, so that failures
\* separated by delivered transcripts do not add up.
C36_DeliveryResetsRetryCount ==
    (cap.pc = "stream" /\ cap.got) => cap.retry_count = 0

\* ------------------------------------------------- properties of blank transcripts
\* C38 as stated: a transcript whose text is empty or only whitespace is
\* never on the transcript queue (so the generation thread never takes it),
\* and when it has is_speech_start true and tts_playing is true as it is
\* examined, handle_interruption() is called for it.
C38_BlankSkippedYetInterrupts ==
    /\ \A i \in DOMAIN transcript_queue : Strip(transcript_queue[i]) # <<>>
    /\ (cap.last.examined /\ Strip(cap.last.text) = <<>>
          /\ cap.last.speech_start /\ cap.last.playing) => cap.last.called

\* C38 as amended: the same, the call of handle_interruption() being made
\* when the manager has an interruption handler (enable_interruptions).
C38_BlankSkippedYetInterruptsIfEnabled ==
    /\ \A i \in DOMAIN transcript_queue : Strip(transcript_queue[i]) # <<>>
    /\ (cap.last.examined /\ Strip(cap.last.text) = <<>>
          /\ cap.last.speech_start /\ cap.last.playing /\ cap.enabled)
         => cap.last.called

\* a whitespace-only transcript that began speech during playback was
\* examined: handle_interruption() was called for it and it was not put on
\* the transcript queue
C38_Witness ==
    /\ cap.pc = "stream" /\ cap.got
    /\ cap.last.examined /\ cap.last.text = <<" ", " ">>
    /\ cap.last.speech_start /\ cap.last.playing /\ cap.last.called
    /\ ~tts_playing
    /\ transcript_queue = <<>>

\* ------------------------------------------------- synthesis thread and handle_interruption
\* the state the actions of SpecSyn leave alone
synOthers == <<started, transcript_queue, stt, hi, ai, tts, lcVars, ihVars,
               rbVars, vad, mc, stats, lat, ch>>

\* program counters of the synthesis thread between line 332 and the end of
\* the finally block of the response in hand
SynHandling == {"next", "check", "stop_playback", "play", "finally"}

\* start(), lines 119-148, as far as the synthesis thread sees it; enabled
\* tells whether interruption_handler is not None (line 66)
Syn_Start ==
    /\ ~syn.on
    /\ is_running' = TRUE
    /\ shutdown_event' = FALSE
    /\ \E en \in BOOLEAN :
         syn' = [syn EXCEPT !.on = TRUE, !.enabled = en, !.tts.pc = "poll"]
    /\ UNCHANGED <<tts_playing, response_queue, handler, errors, synOthers>>

\* stop(), lines 157-158
Syn_Stop ==
    /\ syn.on /\ ~shutdown_event
    /\ is_running' = FALSE
    /\ shutdown_event' = TRUE
    /\ UNCHANGED <<tts_playing, response_queue, handler, errors, syn,
                   synOthers>>

\* InterruptionHandler.trigger_interruption on the manager's handler, called
\* by a client or a callback
Syn_Trigger ==
    /\ syn.on /\ syn.enabled /\ is_running
    /\ ~handler["mgr"].is_interrupted
    /\ handler' = [handler EXCEPT
                     !["mgr"] = TriggerInterruption(@, NoCalls, clock, {}).handler]
    /\ UNCHANGED <<is_running, shutdown_event, tts_playing, response_queue,
                   errors, syn, synOthers>>

\* _ai_worker, line 294: the generation thread puts a final response
Syn_Put ==
    /\ syn.on /\ is_running /\ ~shutdown_event
    /\ syn.puts < MaxResponses
    /\ response_queue' = Append(response_queue, syn.puts + 1)
    /\ syn' = [syn EXCEPT !.puts = @ + 1]
    /\ UNCHANGED <<is_running, shutdown_event, tts_playing, handler, errors,
                   synOthers>>

\* _tts_worker, lines 319-325: the loop condition and response_queue.get
Syn_TTSPoll ==
    /\ syn.tts.pc = "poll"
    /\ IF ~is_running \/ shutdown_event
       THEN /\ syn' = [syn EXCEPT !.tts.pc = "done"]
            /\ UNCHANGED response_queue
       ELSE /\ response_queue # <<>>
            /\ response_queue' = Tail(response_queue)
            /\ syn' = [syn EXCEPT !.tts = [NoResponse EXCEPT !.pc = "start"],
                                  !.deq = @ + 1]
    /\ UNCHANGED <<is_running, shutdown_event, tts_playing, handler, errors,
                   synOthers>>

\* _tts_worker, lines 328-334: tts_playing = True
Syn_TTSStart ==
    /\ syn.tts.pc = "start"
    /\ tts_playing' = TRUE
    /\ syn' = [syn EXCEPT !.tts.pc = "next",
                          !.hi.tts_started = (@ \/ syn.hi.pc # "idle")]
    /\ UNCHANGED <<is_running, shutdown_event, response_queue, handler,
                   errors, synOthers>>

\* _tts_worker, line 338: stream_audio() yields a chunk, is exhausted, or
\* raises into the except clause of lines 364-367
Syn_TTSNext ==
    /\ syn.tts.pc = "next"
    /\ \/ /\ syn.tts.n < MaxStreamChunks
          /\ syn' = [syn EXCEPT !.tts.pc = "check", !.tts.n = @ + 1]
          /\ UNCHANGED errors
       \/ /\ syn' = [syn EXCEPT !.tts.pc = "finally"]
          /\ UNCHANGED errors
       \/ /\ errors < MaxErrors
          /\ errors' = errors + 1
          /\ syn' = [syn EXCEPT !.tts.pc = "finally"]
    /\ UNCHANGED <<is_running, shutdown_event, tts_playing, response_queue,
                   handler, synOthers>>

\* a synthesis thread that skips the chunk but goes on with the stream when
\* it finds the flag set
Syn_TTSCheck_SkipsChunk ==
    /\ syn.tts.pc = "check"
    /\ syn' = IF ~is_running \/ shutdown_event
              THEN [syn EXCEPT !.tts.pc = "finally"]
              ELSE IF syn.enabled /\ IsInterruptedAtomic(handler["mgr"])
              THEN [syn EXCEPT !.tts.pc = "next", !.tts.seen = TRUE]
              ELSE [syn EXCEPT !.tts.pc = "play"]
    /\ UNCHANGED <<is_running, shutdown_event, tts_playing, response_queue,
                   handler, errors, synOthers>>

\* _tts_worker, lines 339-347: the running check and the interruption check
Syn_TTSCheck ==
    /\ syn.tts.pc = "check"
    /\ syn' = IF ~is_running \/ shutdown_event
              THEN [syn EXCEPT !.tts.pc = "finally"]
              ELSE IF syn.enabled /\ IsInterruptedAtomic(handler["mgr"])
              THEN [syn EXCEPT !.tts.pc = "stop_playback", !.tts.seen = TRUE]
              ELSE [syn EXCEPT !.tts.pc = "play"]
    /\ UNCHANGED <<is_running, shutdown_event, tts_playing, response_queue,
                   handler, errors, synOthers>>

\* _tts_worker, lines 348-349: tts_provider.stop_playback() returns and the
\* loop breaks, or it raises into the except clause of lines 364-367
Syn_TTSStopPlayback ==
    /\ syn.tts.pc = "stop_playback"
    /\ syn' = [syn EXCEPT !.tts.pc = "finally", !.tts.stopped = TRUE]
    /\ \/ UNCHANGED errors
       \/ /\ errors < MaxErrors
          /\ errors' = errors + 1
    /\ UNCHANGED <<is_running, shutdown_event, tts_playing, response_queue,
                   handler, synOthers>>

\* _tts_worker, line 352: play_chunk() returns, or raises into the except
\* clause of lines 364-367
Syn_TTSPlay ==
    /\ syn.tts.pc = "play"
    /\ \/ /\ syn' = [syn EXCEPT !.tts.pc = "next", !.tts.played = TRUE]
          /\ UNCHANGED errors
       \/ /\ errors < MaxErrors
          /\ errors' = errors + 1
          /\ syn' = [syn EXCEPT !.tts.pc = "finally"]
    /\ UNCHANGED <<is_running, shutdown_event, tts_playing, response_queue,
                   handler, synOthers>>

\* _tts_worker, lines 369-370: the finally block
Syn_TTSFinally ==
    /\ syn.tts.pc = "finally"
    /\ tts_playing' = FALSE
    /\ syn' = [syn EXCEPT !.tts.pc = "poll"]
    /\ UNCHANGED <<is_running, shutdown_event, response_queue, handler,
                   errors, synOthers>>

\* handle_interruption(), lines 382-391, called by the capture thread (line
\* 210) or by a client: record_interruption()
Syn_HIEnter ==
    /\ syn.on /\ syn.hi.pc = "idle"
    /\ syn.hi.calls < MaxInterruptions
    /\ syn' = [syn EXCEPT !.hi = [NoInterruption EXCEPT
                                    !.pc = "drain",
                                    !.calls = syn.hi.calls + 1,
                                    !.epoch = syn.deq]]
    /\ UNCHANGED <<is_running, shutdown_event, tts_playing, response_queue,
                   handler, errors, synOthers>>

\* one iteration of the drain loop, lines 392-397
Syn_HIDrain ==
    /\ syn.hi.pc = "drain"
    /\ IF response_queue = <<>>
       THEN /\ syn' = [syn EXCEPT !.hi.pc = "test", !.hi.drained = TRUE]
            /\ UNCHANGED response_queue
       ELSE /\ response_queue' = Tail(response_queue)
            /\ UNCHANGED syn
    /\ UNCHANGED <<is_running, shutdown_event, tts_playing, handler, errors,
                   synOthers>>

\* line 402: the test of tts_playing
Syn_HITest ==
    /\ syn.hi.pc = "test"
    /\ syn' = [syn EXCEPT !.hi.pc = IF tts_playing THEN "stop_playback"
                                    ELSE "stop_streaming"]
    /\ UNCHANGED <<is_running, shutdown_event, tts_playing, response_queue,
                   handler, errors, synOthers>>

\* a handle_interruption() that calls stop_playback() outside a try block
Syn_HIStopPlayback_Unguarded ==
    /\ syn.hi.pc = "stop_playback"
    /\ \/ syn' = [syn EXCEPT !.hi.pc = "clear"]
       \/ syn' = [syn EXCEPT !.hi.pc = "idle", !.hi.raised = TRUE,
                             !.hi.outcome = "raised"]
    /\ UNCHANGED <<is_running, shutdown_event, tts_playing, response_queue,
                   handler, errors, synOthers>>

\* lines 403-406: tts_provider.stop_playback() returns, or raises into the
\* except clause, which logs a warning
Syn_HIStopPlayback ==
    /\ syn.hi.pc = "stop_playback"
    /\ \/ syn' = [syn EXCEPT !.hi.pc = "clear"]
       \/ syn' = [syn EXCEPT !.hi.pc = "clear", !.hi.raised = TRUE]
    /\ UNCHANGED <<is_running, shutdown_event, tts_playing, response_queue,
                   handler, errors, synOthers>>

\* line 407: tts_playing = False
Syn_HIClear ==
    /\ syn.hi.pc = "clear"
    /\ tts_playing' = FALSE
    /\ syn' = [syn EXCEPT
                 !.hi.pc = "stop_streaming",
                 !.tts.cleared = IF syn.tts.pc \notin SynHandling THEN @
                                 ELSE IF syn.hi.epoch = syn.deq THEN "own"
                                 ELSE "stale"]
    /\ UNCHANGED <<is_running, shutdown_event, response_queue, handler,
                   errors, synOthers>>

\* lines 409-413: ai_provider.stop_streaming() returns, or raises into the
\* except clause, which logs a warning
Syn_HIStopStreaming ==
    /\ syn.hi.pc = "stop_streaming"
    /\ \/ syn' = [syn EXCEPT !.hi.pc = "reset"]
       \/ syn' = [syn EXCEPT !.hi.pc = "reset", !.hi.raised = TRUE]
    /\ UNCHANGED <<is_running, shutdown_event, tts_playing, response_queue,
                   handler, errors, synOthers>>

\* lines 415-417: interruption_handler.reset(), and the return
Syn_HIReset ==
    /\ syn.hi.pc = "reset"
    /\ handler' = IF syn.enabled
                  THEN [handler EXCEPT !["mgr"] = Reset(@)]
                  ELSE handler
    /\ syn' = [syn EXCEPT !.hi.pc = "idle", !.hi.outcome = "returned"]
    /\ UNCHANGED <<is_running, shutdown_event, tts_playing, response_queue,
                   errors, synOthers>>

SynNext ==
    \/ Syn_Start \/ Syn_Stop \/ Syn_Trigger \/ Syn_Put
    \/ Syn_TTSPoll \/ Syn_TTSStart \/ Syn_TTSNext \/ Syn_TTSCheck
    \/ Syn_TTSStopPlayback \/ Syn_TTSPlay \/ Syn_TTSFinally
    \/ Syn_HIEnter \/ Syn_HIDrain \/ Syn_HITest \/ Syn_HIStopPlayback
    \/ Syn_HIClear \/ Syn_HIStopStreaming \/ Syn_HIReset

SpecSyn == Init /\ [][SynNext]_vars

\* ------------------------------------------------- properties of the synthesis thread under interruption
\* C31: once the synthesis thread has found is_interrupted_atomic() true
\* before playing a chunk, it calls the backend's stop_playback(), requests
\* and plays no further chunk of that response, and is back at the response
\* queue with tts_playing false.
C31_InterruptedStopsPlayback ==
    syn.tts.seen =>
        /\ syn.tts.pc \in {"stop_playback", "finally", "poll", "done"}
        /\ syn.tts.pc # "stop_playback" => syn.tts.stopped
        /\ syn.tts.pc \in {"poll", "done"} => ~tts_playing

\* the thread had played a chunk of the response when it found the flag
\* set; it has called stop_playback() and polls the queue again, the
\* pipeline still running
C31_Witness ==
    /\ syn.tts.seen /\ syn.tts.played /\ syn.tts.stopped
    /\ syn.tts.pc = "poll" /\ ~tts_playing
    /\ is_running /\ ~shutdown_event

\* C32: from line 332 to the end of the finally block of a response,
\* tts_playing is true unless a handle_interruption() call that began after
\* the response was dequeued has cleared it: a call that began before the
\* dequeue does not clear tts_playing for the response.
C32_NoStaleClear ==
    syn.tts.pc \in SynHandling => (tts_playing \/ syn.tts.cleared = "own")

concOthers == <<pipeVars, ihVars, rbVars, vad, mc, stats, lat, syn>>

\* thread t is inside trigger_interruption()
InTrigger(t) ==
    \/ ch.th[t].pc \in {"trig_acquire", "trig_check", "trig_set", "iter",
                        "callback"}
    \/ ch.th[t].pc \in {"acquire", "locked"} /\ ch.th[t].ret = "iter"

\* thread t is inside a callback invoked at line 179
InCallback(t) ==
    \/ ch.th[t].pc = "callback"
    \/ ch.th[t].pc \in {"acquire", "locked"} /\ ch.th[t].ret = "iter"

\* thread t calls trigger_interruption()
Conc_Trigger(t) ==
    /\ ch.th[t].pc = "idle" /\ ch.ops < MaxOps
    /\ ch' = [ch EXCEPT
                !.ops = @ + 1,
                !.th[t] = [NoThread EXCEPT !.pc = "trig_acquire",
                                           !.began = ch.h.callbacks],
                !.obs.triggers = @ + 1,
                !.obs.overlap =
                    (@ \/ \E u \in Threads :
                            ch.th[u].pc \in {"trig_acquire", "trig_check",
                                             "trig_set"})]
    /\ UNCHANGED concOthers

\* a trigger_interruption() that enters its critical section without
\* waiting for the lock
Conc_TriggerAcquire_NoLock(t) ==
    /\ ch.th[t].pc = "trig_acquire"
    /\ ch' = [ch EXCEPT !.lock = t, !.th[t].pc = "trig_check"]
    /\ UNCHANGED concOthers

\* trigger_interruption, line 166: "with self._lock" acquires the lock
Conc_TriggerAcquire(t) ==
    /\ ch.th[t].pc = "trig_acquire"
    /\ ch.lock = "free"
    /\ ch' = [ch EXCEPT !.lock = t, !.th[t].pc = "trig_check"]
    /\ UNCHANGED concOthers

\* lines 167-169: the early return of a trigger that finds the flag set
Conc_TriggerCheck(t) ==
    /\ ch.th[t].pc = "trig_check"
    /\ ch' = IF ch.h.is_interrupted
             THEN [ch EXCEPT !.lock = "free", !.th[t] = NoThread]
             ELSE [ch EXCEPT !.th[t].pc = "trig_set"]
    /\ UNCHANGED concOthers

\* a trigger_interruption() whose callback loop is inside the with block
Conc_TriggerSet_KeepsLock(t) ==
    /\ ch.th[t].pc = "trig_set"
    /\ ch' = [ch EXCEPT
                !.h = [@ EXCEPT !.is_interrupted = TRUE, !.last_time = clock],
                !.th[t].pc = "iter", !.th[t].i = 0, !.th[t].set = TRUE,
                !.obs.setters = @ + 1]
    /\ UNCHANGED concOthers

\* lines 171-174: the flag and the time are set and the with block is left
Conc_TriggerSet(t) ==
    /\ ch.th[t].pc = "trig_set"
    /\ ch' = [ch EXCEPT
                !.h = [@ EXCEPT !.is_interrupted = TRUE, !.last_time = clock],
                !.lock = "free",
                !.th[t].pc = "iter", !.th[t].i = 0, !.th[t].set = TRUE,
                !.obs.setters = @ + 1]
    /\ UNCHANGED concOthers

\* line 177: one step of the iterator over self._callbacks, which yields the
\* element at its index or ends the loop when the index has reached the
\* length the list has now
Conc_TriggerIter(t) ==
    /\ ch.th[t].pc = "iter"
    /\ ch' = IF ch.th[t].i < Len(ch.h.callbacks)
             THEN LET c == ch.h.callbacks[ch.th[t].i + 1] IN
                  [ch EXCEPT !.th[t].pc = "callback", !.th[t].i = @ + 1,
                             !.th[t].invoked[c] = @ + 1,
                             !.calls[c] = @ + 1]
             ELSE [ch EXCEPT !.th[t] = [NoThread EXCEPT !.set = TRUE]]
    /\ UNCHANGED concOthers

\* lines 178-181: the callback returns, or raises and is logged, or calls one
\* of the handler's methods that take the lock
Conc_Callback(t) ==
    /\ ch.th[t].pc = "callback"
    /\ \/ ch' = [ch EXCEPT !.th[t].pc = "iter"]
       \/ \E m \in LockedMethods :
            ch' = [ch EXCEPT !.th[t].pc = "acquire", !.th[t].m = m,
                             !.th[t].ret = "iter"]
    /\ UNCHANGED concOthers

\* thread t calls reset(), is_interrupted_atomic() or set_tts_playing()
Conc_CallLocked(t) ==
    /\ ch.th[t].pc = "idle" /\ ch.ops < MaxOps
    /\ \E m \in LockedMethods :
         ch' = [ch EXCEPT !.ops = @ + 1,
                          !.th[t].pc = "acquire", !.th[t].m = m,
                          !.th[t].ret = "idle"]
    /\ UNCHANGED concOthers

\* reset, is_interrupted_atomic (lines 185 and 192) and set_tts_playing (line
\* 25 of the worktree's handler): "with self._lock" acquires the lock
Conc_Acquire(t) ==
    /\ ch.th[t].pc = "acquire"
    /\ ch.lock = "free"
    /\ ch' = [ch EXCEPT !.lock = t, !.th[t].pc = "locked"]
    /\ UNCHANGED concOthers

\* the body of the method and the end of its with block: reset (line 186),
\* is_interrupted_atomic (line 193), set_tts_playing(False) (line 26 of the
\* worktree's handler)
Conc_Locked(t) ==
    /\ ch.th[t].pc = "locked"
    /\ ch' = [ch EXCEPT
                !.h = IF ch.th[t].m = "reset" THEN Reset(@) ELSE @,
                !.tts_playing = IF ch.th[t].m = "set_tts_playing"
                                THEN FALSE ELSE @,
                !.lock = "free",
                !.th[t].pc = ch.th[t].ret, !.th[t].m = "none",
                !.th[t].ret = "idle",
                !.obs.pure = (@ /\ (ch.th[t].m # "reset"
                                      \/ ch.obs.triggers = 0))]
    /\ UNCHANGED concOthers

\* thread t calls register_callback(c), lines 195-197
Conc_Register(t, c) ==
    /\ ch.th[t].pc = "idle" /\ ch.ops < MaxOps
    /\ Len(ch.h.callbacks) < MaxCallbacks
    /\ ch' = [ch EXCEPT
                !.ops = @ + 1,
                !.h = RegisterCallback(@, c),
                !.th = [u \in Threads |->
                          IF InTrigger(u)
                          THEN [ch.th[u] EXCEPT !.disturbed = TRUE]
                          ELSE ch.th[u]],
                !.obs.pure = (@ /\ ch.obs.triggers = 0)]
    /\ UNCHANGED concOthers

\* thread t calls unregister_callback(c), lines 199-202
Conc_Unregister(t, c) ==
    /\ ch.th[t].pc = "idle" /\ ch.ops < MaxOps
    /\ ch' = [ch EXCEPT
                !.ops = @ + 1,
                !.h = UnregisterCallback(@, c),
                !.th = [u \in Threads |->
                          IF InTrigger(u)
                          THEN [ch.th[u] EXCEPT !.removed = @ \cup {c}]
                          ELSE ch.th[u]],
                !.obs.pure = (@ /\ ch.obs.triggers = 0)]
    /\ UNCHANGED concOthers

\* the steps of thread t inside a call it has made
Conc_Step(t) ==
    \/ Conc_TriggerAcquire(t) \/ Conc_TriggerCheck(t) \/ Conc_TriggerSet(t)
    \/ Conc_TriggerIter(t) \/ Conc_Callback(t)
    \/ Conc_Acquire(t) \/ Conc_Locked(t)

ConcNext ==
    \E t \in Threads :
       \/ Conc_Trigger(t) \/ Conc_CallLocked(t)
       \/ \E c \in CallbackIds : Conc_Register(t, c) \/ Conc_Unregister(t, c)
       \/ Conc_Step(t)

SpecConc == Init /\ [][ConcNext]_vars

\* ------------------------------------------------- properties of the handler under two threads
\* C33: when two trigger_interruption() calls have been made and have
\* returned, with no reset(), register_callback() or unregister_callback()
\* taking effect since the first began, exactly one of them has set the flag
\* and every
\* callback has run once per registration; in particular when the two calls
\* ran concurrently, both beginning while the flag was false.
C33_OneTriggerWins ==
    (/\ ch.obs.pure /\ ch.obs.triggers = 2
     /\ \A t \in Threads : ch.th[t].pc = "idle")
    => /\ ch.obs.setters = 1
       /\ \A c \in CallbackIds :
             ch.calls[c] = Registrations(ch.h.callbacks, c)

\* two threads were inside trigger_interruption() before either had set the
\* flag; both have returned, one of them having invoked the two registered
\* callbacks
C33_Witness ==
    /\ ch.obs.pure /\ ch.obs.triggers = 2 /\ ch.obs.overlap
    /\ \A t \in Threads : ch.th[t].pc = "idle"
    /\ ch.h.callbacks = <<"cbA", "cbB">>
    /\ ch.obs.setters = 1
    /\ ch.calls = [c \in CallbackIds |-> 1]
    /\ \E t \in Threads : ch.th[t].set /\ ~ch.th[CHOOSE u \in Threads : u # t].set

\* C39: the handler's lock is held only by a thread inside one of the with
\* blocks, never by a thread that iterates over the callbacks, runs a
\* callback or waits for the lock: a callback that calls reset(),
\* is_interrupted_atomic() or set_tts_playing() on the handler, and a thread
\* that polls is_interrupted_atomic() while callbacks run, wait only for a
\* thread that is about to release the lock.
C39_CallbacksRunUnlocked ==
    /\ \A t \in Threads :
          (ch.th[t].pc \in {"iter", "callback", "acquire", "trig_acquire"})
             => ch.lock # t
    /\ ch.lock # "free" =>
          ch.th[ch.lock].pc \in {"trig_check", "trig_set", "locked"}

\* a callback of one thread's trigger is waiting for the lock inside
\* reset() while the other thread holds it inside is_interrupted_atomic()
C39_Witness ==
    \E t, u \in Threads :
       /\ ch.th[t].pc = "acquire" /\ ch.th[t].ret = "iter"
       /\ ch.th[t].m = "reset"
       /\ ch.th[u].pc = "locked" /\ ch.th[u].ret = "idle"
       /\ ch.th[u].m = "is_interrupted_atomic"
       /\ ch.lock = u

\* C40: when the callback loop of a trigger_interruption() ends, it has
\* invoked exactly once every callback that was registered (once) when the
\* trigger was called and was not unregistered meanwhile, whatever other
\* callbacks were unregistered while it iterated.
C40_UnregisterSkipsNoOther ==
    [][\A t \in Threads :
         (ch.th[t].pc = "iter" /\ ch'.th[t].pc = "idle"
            /\ ~ch.th[t].disturbed) =>
            \A g \in CallbackIds :
               (Registrations(ch.th[t].began, g) = 1
                  /\ g \notin ch.th[t].removed)
               => ch.th[t].invoked[g] = 1]_vars

====
